---------------------------- MODULE Spec2Model ----------------------------
(***************************************************************************)
(* A model of backend/services/project_analyzer.py: file discovery, layer  *)
(* classification, edge deduplication, graph layout and API route          *)
(* matching.                                                               *)
(*                                                                         *)
(* Text is modelled character by character: a name is a sequence of        *)
(* one-character strings, a relative path is a sequence of names.          *)
(***************************************************************************)
EXTENDS Integers, Sequences, FiniteSets, TLC

VARIABLES
  \* --- _scan_files (os.walk) ---
  tree,          \* the files under the root, each a path (sequence of names)
  walk_stack,    \* directories os.walk has still to yield, next one first
  collected,     \* _scan_files' `collected` list
  \* --- _extract_edges, the deduplication loop ---
  edges,         \* the candidate edges appended by per-file extraction
  seen,          \* the loop's `seen` dict, in insertion order: <<src, tgt, type>>
  dedup_i,       \* the index of the next candidate the loop reads
  edge_list,     \* the list _extract_edges returns ("none" until it returns)
  dedup_pc,      \* "idle" | "loop" | "done"
  \* --- analyze ---
  files,         \* the list _scan_files returned
  unreadable,    \* the files whose read_text raises
  route_files,   \* the Python files whose content holds a route decorator
  refs,          \* the references the files' contents hold
  buckets,       \* _categorize_files' result: layer -> list of files
  diagnostics,   \* _build_diagnostics' result ("none" before)
  column_groups, \* column -> groups <<dir_key, fpaths>> in dict order
  degree,        \* the degree dict of Step 2
  sorted_columns,\* column -> groups in their final order
  nodes,         \* the node list
  node_id_map,   \* rel path -> node id
  col_heights,   \* column -> height
  graph_edges,   \* the rendered edge list
  pc,            \* the position of analyze
  (* the API call step of _extract_edges, within one frontend file *)
  route_map,     \* the route dict, in insertion order: <<route, target>> pairs
  api_calls,     \* the call literals api_call_re finds in the file, in order
  call_i,        \* index of the next call literal
  call_results,  \* what _match_api_route gave for each call literal so far
  api_edges,     \* the api_call edges appended by the step
  api_endpoints, \* <<key, endpoint list>> pairs, in insertion order
  route_pc,      \* "idle", "calls", "raised" (an exception left the loop)
  (* the JS-family branch of _extract_edges, for one source file *)
  js_source,     \* fpath, relative to the root
  js_content,    \* the import statements of the content, in order
  use_store,     \* whether use_store_re finds a use*Store( call
  all_rel_paths, \* the indexed relative paths
  disk_files,    \* the files that exist under the root
  api_hits,      \* the targets steps C and D find for this file, in order
  js_pc,         \* "idle", "imports", "state", "api", "done"
  (* _detect_framework *)
  fw_manifests,  \* pkg_candidates: <<state, deps>>, the root's package.json first
  fw_reqs,       \* req_candidates: <<readable, text>> of each Python manifest
  fw_pyfiles,    \* the texts of the root-level Python files, in glob order
  fw_deep_py,    \* whether root.glob("**/*.py") finds a file
  fw_templates,  \* whether root / "templates" is a directory
  fw_i,          \* index of the next entry of pkg_candidates
  fw_frontend,   \* result["frontend"]
  fw_backend,    \* result["backend"]
  fw_languages,  \* result["languages"]
  fw_pc,         \* "idle", "manifests", "python", "finish", "done"
  (* a call of analyze or search_in_files, directly or through the search endpoint *)
  rq_op,         \* "search_http", "search", "analyze"
  rq_root,       \* what project_path names: "dir", "file", "missing", "rejected"
  rq_query,      \* the query text
  rq_files,      \* what _scan_files returns: <<path, content>> per file
  rq_i,          \* index of the next file of the search loop
  rq_results,    \* results
  rq_scanned,    \* whether _scan_files was called
  rq_outcome,    \* "none", "error_dir", "error_short", "raised", "ok"
  rq_pc,         \* "idle", "http", "entry", "loop", "sort", "analyzing", "done"
  (* the blueprint and route indexing passes of _extract_edges; they fill route_map *)
  ix_files,         \* the discovered files: <<path, content>>, content a list of statements
  ix_i,             \* index of the next file of the running pass
  bp_var_to_file,   \* <<var_name, rel_path>> pairs
  bp_prefix_map,    \* <<rel_path, var_name, prefix>> entries
  bp_registrations, \* <<var_name, prefix>> pairs
  ix_pc,            \* "idle", "blueprints", "merge", "routes", "done"
  (* calls of analyze and search_in_files on the one project_analyzer instance *)
  sh_input,      \* the arguments and the tree of each call
  sh_pc,         \* where each call stands: "entry", "categorize", "extract", "graph",
                 \* "loop", "return", "done"
  sh_frame,      \* the local variables of the activations
  sh_result,     \* what each call has returned
  sh_overlap,    \* whether the call took a step while another call was running
  (* the file operations: write_artifact, and the read-file and download-zip endpoints *)
  fs_op,         \* "none", "write_artifact", "read_file", "download_zip"
  fs_dirs,       \* the directories that exist, as absolute paths
  fs_disk,       \* the files that exist, as absolute paths
  fs_size,       \* the size in bytes of the project's app.py
  fs_root,       \* the text of the project path
  fs_names,      \* the file texts of the call
  fs_i,          \* index of the next file text of download_zip
  fs_written,    \* the paths write_text has written
  fs_sent,       \* the paths whose content a response holds
  fs_calls,      \* the calls made so far
  fs_outcome,    \* "none", "ok", "security_error", "os_error", "400", "404", "too_large"
  fs_pc,         \* "idle", "suffix", "mkdir", "confine", "write", "check", "loop", "done"
  (* the workflow service *)
  wf_loaded,     \* whether self.state is a WorkflowState
  wf_stage,      \* state.current_stage
  wf_nodes,      \* state.nodes: [type, status, files]
  wf_artifacts,  \* the keys of state.artifacts, each written to the artifacts directory
  wf_last,       \* the operation that returned last
  (* the per-file loop of _extract_edges and the api_flows of analyze *)
  ex_files,      \* the discovered files, in order: <<path, content>>
  ex_disk,       \* the files that exist under the root
  ex_i,          \* index of the next file of the per-file loop
  ex_edges,      \* the candidate edges appended so far
  ex_endpoints,  \* api_endpoints: <<<<source, target>>, endpoint list>> pairs
  ex_edge_list,  \* the edge list _extract_edges returned
  ex_api_flows,  \* the api_flows of the analyze result
  ex_pc          \* "idle", "files", "flows", "done", "raised"

scanVars == <<tree, walk_stack, collected>>

dedupVars == <<edges, seen, dedup_i, edge_list, dedup_pc>>

graphVars == <<files, unreadable, route_files, refs, buckets, diagnostics, column_groups,
               degree, sorted_columns, nodes, node_id_map, col_heights, graph_edges, pc>>

routeVars == <<route_map, api_calls, call_i, call_results, api_edges, api_endpoints, route_pc>>

storeVars == <<js_source, js_content, use_store, all_rel_paths, disk_files, api_hits, js_pc>>

fwVars == <<fw_manifests, fw_reqs, fw_pyfiles, fw_deep_py, fw_templates, fw_i,
           fw_frontend, fw_backend, fw_languages, fw_pc>>

rqVars == <<rq_op, rq_root, rq_query, rq_files, rq_i, rq_results, rq_scanned, rq_outcome, rq_pc>>

ixVars == <<ix_files, ix_i, bp_var_to_file, bp_prefix_map, bp_registrations, ix_pc>>

shVars == <<sh_input, sh_pc, sh_frame, sh_result, sh_overlap>>

fsVars == <<fs_op, fs_dirs, fs_disk, fs_size, fs_root, fs_names, fs_i, fs_written, fs_sent,
           fs_calls, fs_outcome, fs_pc>>

wfVars == <<wf_loaded, wf_stage, wf_nodes, wf_artifacts, wf_last>>

exVars == <<ex_files, ex_disk, ex_i, ex_edges, ex_endpoints, ex_edge_list, ex_api_flows, ex_pc>>

ExtractIdle ==
  /\ ex_files = <<>>
  /\ ex_disk = {}
  /\ ex_i = 1
  /\ ex_edges = <<>>
  /\ ex_endpoints = <<>>
  /\ ex_edge_list = <<>>
  /\ ex_api_flows = <<>>
  /\ ex_pc = "idle"

vars == <<scanVars, dedupVars, graphVars, routeVars, storeVars, fwVars, rqVars, ixVars, shVars,
          fsVars, wfVars, exVars>>

\* What the actions of one part of the model leave alone
notScan ==
  <<dedupVars, graphVars, routeVars, storeVars, fwVars, rqVars, ixVars, shVars, fsVars, wfVars, exVars>>

notDedup ==
  <<scanVars, graphVars, routeVars, storeVars, fwVars, rqVars, ixVars, shVars, fsVars, wfVars, exVars>>

\* (the analyze actions write the deduplication variables themselves)
notGraph ==
  <<scanVars, routeVars, storeVars, fwVars, rqVars, ixVars, shVars, fsVars, wfVars, exVars>>

---------------------------------------------------------------------------
(* Generic helpers on sequences and sets *)

Range(s) == { s[i] : i \in 1..Len(s) }

Perms(S) ==
  { s \in [1..Cardinality(S) -> S] : \A i, j \in 1..Cardinality(S) : i # j => s[i] # s[j] }

StartsWith(s, p) == Len(s) >= Len(p) /\ SubSeq(s, 1, Len(p)) = p

EndsWith(s, p) == Len(s) >= Len(p) /\ SubSeq(s, Len(s) - Len(p) + 1, Len(s)) = p

UpperChars ==
  <<"A","B","C","D","E","F","G","H","I","J","K","L","M","N","O","P","Q","R","S","T","U","V","W","X","Y","Z">>

LowerChars ==
  <<"a","b","c","d","e","f","g","h","i","j","k","l","m","n","o","p","q","r","s","t","u","v","w","x","y","z">>

Digits == {"0","1","2","3","4","5","6","7","8","9"}

\* str.lower() on one character
LowerChar(c) ==
  IF \E i \in 1..Len(UpperChars) : UpperChars[i] = c
  THEN LowerChars[CHOOSE i \in 1..Len(UpperChars) : UpperChars[i] = c]
  ELSE c

\* str.lower()
Lower(s) == [i \in 1..Len(s) |-> LowerChar(s[i])]

\* pathlib's PurePath.suffix: the name from its last '.', unless that '.' is
\* the first or the last character of the name
Suffix(name) ==
  LET dots == { i \in 1..Len(name) : name[i] = "." }
  IN IF dots = {} THEN <<>>
     ELSE LET i == CHOOSE k \in dots : \A m \in dots : m <= k
          IN IF 1 < i /\ i < Len(name) THEN SubSeq(name, i, Len(name)) ELSE <<>>

---------------------------------------------------------------------------
(* 1. File discovery: the module constants *)

SKIP_DIRS ==
  { <<"n","o","d","e","_","m","o","d","u","l","e","s">>, <<".","g","i","t">>, <<"d","i","s","t">>,
    <<"b","u","i","l","d">>, <<"_","_","p","y","c","a","c","h","e","_","_">>,
    <<".","v","e","n","v">>, <<"v","e","n","v">>, <<"e","n","v">>, <<".","n","e","x","t">>,
    <<".","n","u","x","t">>, <<".","s","v","e","l","t","e","-","k","i","t">>,
    <<".","i","d","e","a">>, <<".","v","s","c","o","d","e">>, <<"c","o","v","e","r","a","g","e">>,
    <<".","c","a","c","h","e">>, <<".","o","u","t","p","u","t">>, <<"d","o","c">>,
    <<"d","o","c","s">>, <<"l","o","g","s">>, <<"l","o","g">>, <<"t","m","p">>, <<"t","e","m","p">> }

SKIP_EXTENSIONS ==
  { <<".","p","y","c">>, <<".","p","y","o">>, <<".","m","a","p">>, <<".","l","o","c","k">>,
    <<".","i","c","o">>, <<".","p","n","g">>, <<".","j","p","g">>, <<".","j","p","e","g">>,
    <<".","g","i","f">>, <<".","s","v","g">>, <<".","w","o","f","f">>, <<".","w","o","f","f","2">>,
    <<".","t","t","f">>, <<".","e","o","t">>, <<".","p","e","m">>, <<".","l","o","g">>,
    <<".","t","x","t">>, <<".","m","d">>, <<".","y","a","m","l">>, <<".","y","m","l">>,
    <<".","t","o","m","l">>, <<".","c","f","g">>, <<".","i","n","i">>, <<".","e","n","v">>,
    <<".","g","i","t","i","g","n","o","r","e">> }

CODE_EXTENSIONS ==
  { <<".","v","u","e">>, <<".","j","s">>, <<".","j","s","x">>, <<".","t","s">>, <<".","t","s","x">>,
    <<".","s","v","e","l","t","e">>, <<".","p","y">>, <<".","r","b">>, <<".","g","o">>,
    <<".","j","a","v","a">>, <<".","r","s">>, <<".","h","t","m","l">>, <<".","c","s","s">>,
    <<".","s","c","s","s">>, <<".","l","e","s","s">>, <<".","j","s","o","n">> }

\* VENDOR_PATTERNS, the alternatives anchored at the end of the name ...
VendorSuffixes ==
  { <<".","m","i","n",".","j","s">>, <<"-","m","i","n",".","j","s">>,
    <<".","m","i","n",".","c","s","s">>, <<"-","m","i","n",".","c","s","s">>,
    <<".","b","u","n","d","l","e",".","j","s">>, <<"-","b","u","n","d","l","e",".","j","s">> }

\* ... and those anchored at its start
VendorPrefixes ==
  { <<".","e","s","l","i","n","t","r","c">>,
    <<"w","e","b","p","a","c","k",".","c","o","n","f","i","g">>,
    <<"v","i","t","e",".","c","o","n","f","i","g">>,
    <<"r","o","l","l","u","p",".","c","o","n","f","i","g">>,
    <<"b","a","b","e","l",".","c","o","n","f","i","g">>, <<"t","s","c","o","n","f","i","g">>,
    <<"j","e","s","t",".","c","o","n","f","i","g">> }

\* VENDOR_PATTERNS.search(fname), case-insensitive
VendorMatch(fname) ==
  \/ \E x \in VendorSuffixes : EndsWith(Lower(fname), x)
  \/ \E x \in VendorPrefixes : StartsWith(Lower(fname), x)

\* _is_data_dir: ^\d{4}[_\-]\d{2}$
IsDataDir(name) ==
  /\ Len(name) = 7
  /\ \A i \in {1, 2, 3, 4, 6, 7} : name[i] \in Digits
  /\ name[5] \in {"_", "-"}

\* A variant of the directory filter without the dotted-directory test.
KeepDirNoDotTest(d) == d \notin SKIP_DIRS /\ ~IsDataDir(d)

\* The filter _scan_files applies to dirnames before os.walk descends
KeepDir(d) == d \notin SKIP_DIRS /\ ~StartsWith(d, <<".">>) /\ ~IsDataDir(d)

\* The tests _scan_files applies to one filename
KeepFile(fname) ==
  LET ext == Lower(Suffix(fname))
  IN /\ ext \notin SKIP_EXTENSIONS
     /\ ext \in CODE_EXTENSIONS
     /\ ~VendorMatch(fname)

---------------------------------------------------------------------------
(* 1. File discovery: the walk *)

\* The trees the walk is run on: every set of at most MaxScanFiles files
\* taken from these paths.
ScanUniverse ==
  { <<<<"a",".","j","s">>>>,
    <<<<"s","r","c">>, <<"A",".","J","S">>>>,
    <<<<"n","o","d","e","_","m","o","d","u","l","e","s">>, <<"a",".","j","s">>>>,
    <<<<".","x">>, <<"a",".","j","s">>>>,
    <<<<"2","0","2","4","_","0","1">>, <<"a",".","j","s">>>>,
    <<<<"2","0","2","4","_","1">>, <<"a",".","j","s">>>>,
    <<<<"s","r","c">>, <<"d","o","c","s">>, <<"a",".","j","s">>>>,
    <<<<"D","o","c","s">>, <<"a",".","p","y">>>>,
    <<<<"s","r","c">>, <<"a",".","m","i","n",".","j","s">>>>,
    <<<<"s","r","c">>, <<"a",".","m","d">>>>,
    <<<<"s","r","c">>, <<"a",".","e","x","e">>>>,
    <<<<"s","r","c">>, <<"v","i","t","e",".","c","o","n","f","i","g",".","t","s">>>>,
    <<<<"s","r","c">>, <<".","j","s">>>>,
    <<<<"s","r","c">>, <<"M","a","k","e","f","i","l","e">>>>,
    <<<<"s","r","c">>, <<"d","a","t","a",".","j","s","o","n">>>>,
    <<<<"s","r","c">>, <<"A","-","B","U","N","D","L","E",".","J","S">>>> }

MaxScanFiles == 2

IsPrefix(d, p) == Len(p) > Len(d) /\ SubSeq(p, 1, Len(d)) = d

\* What os.walk lists in directory d of tree t
DirNamesIn(t, d) == { p[Len(d) + 1] : p \in { q \in t : IsPrefix(d, q) /\ Len(q) > Len(d) + 1 } }

FileNamesIn(t, d) == { p[Len(d) + 1] : p \in { q \in t : IsPrefix(d, q) /\ Len(q) = Len(d) + 1 } }

ScanInit ==
  /\ tree \in { t \in SUBSET ScanUniverse : Cardinality(t) <= MaxScanFiles }
  /\ walk_stack = << <<>> >>
  /\ collected = <<>>

ScanIdle ==
  /\ tree = {}
  /\ walk_stack = <<>>
  /\ collected = <<>>

\* One iteration of the os.walk loop of _scan_files: the directory on top of
\* the stack is listed (in whatever order the file system gives), its
\* dirnames are pruned in place, its files are tested and collected, and the
\* directories kept are walked next, depth first.
WalkDir ==
  /\ walk_stack # <<>>
  /\ LET d == Head(walk_stack)
     IN \E dl \in Perms(DirNamesIn(tree, d)), fl \in Perms(FileNamesIn(tree, d)) :
          LET kept == SelectSeq(dl, KeepDir)
              good == SelectSeq(fl, KeepFile)
          IN /\ collected' = collected \o [i \in 1..Len(good) |-> Append(d, good[i])]
             /\ walk_stack' = [i \in 1..Len(kept) |-> Append(d, kept[i])] \o Tail(walk_stack)
  /\ UNCHANGED tree
  /\ UNCHANGED notScan

ScanDone == walk_stack = <<>>

ScanNext == WalkDir

---------------------------------------------------------------------------
(* Claims about file discovery *)

\* The test of claim C5 on one path, stated on the path alone
PassesDiscoveryTests(p) ==
  LET fname == p[Len(p)]
      ext == Lower(Suffix(fname))
  IN /\ \A i \in 1..(Len(p) - 1) :
          /\ p[i] \notin SKIP_DIRS
          /\ p[i][1] # "."
          /\ ~IsDataDir(p[i])
     /\ ext \in CODE_EXTENSIONS
     /\ ext \notin SKIP_EXTENSIONS
     /\ ~VendorMatch(fname)

\* C5: once the walk has ended, a file of the tree is in the collected list
\* if and only if no directory between the root and the file is excluded,
\* dotted or a dated-data directory, its lower-cased extension is allowed and
\* not denied, and its name matches no vendor pattern; and no file is
\* collected twice.
C5_DiscoveryIffTests ==
  ScanDone =>
    /\ \A p \in tree : (p \in Range(collected)) <=> PassesDiscoveryTests(p)
    /\ Range(collected) \subseteq tree
    /\ \A i, j \in 1..Len(collected) : i # j => collected[i] # collected[j]

\* A finished walk of a tree that holds a file under a dotted directory, a
\* file that passes every test and is collected, and a file that fails one.
C5_Witness ==
  /\ ScanDone
  /\ \E p \in tree : Len(p) > 1 /\ p[1][1] = "." /\ KeepFile(p[Len(p)])
  /\ collected # <<>>

---------------------------------------------------------------------------
(* The files of the sample project the edge and graph models draw from *)

\* src/views/Home.vue
F_Home == <<<<"s","r","c">>, <<"v","i","e","w","s">>, <<"H","o","m","e",".","v","u","e">>>>

\* src/views/About.vue
F_About == <<<<"s","r","c">>, <<"v","i","e","w","s">>, <<"A","b","o","u","t",".","v","u","e">>>>

\* src/components/Nav.vue
F_Nav == <<<<"s","r","c">>, <<"c","o","m","p","o","n","e","n","t","s">>, <<"N","a","v",".","v","u","e">>>>

\* src/stores/user.js
F_user == <<<<"s","r","c">>, <<"s","t","o","r","e","s">>, <<"u","s","e","r",".","j","s">>>>

\* api/users.py
F_users == <<<<"a","p","i">>, <<"u","s","e","r","s",".","p","y">>>>

\* app.py
F_app == <<<<"a","p","p",".","p","y">>>>

\* main.js
F_main == <<<<"m","a","i","n",".","j","s">>>>

\* pkg/__init__.py
F_init == <<<<"p","k","g">>, <<"_","_","i","n","i","t","_","_",".","p","y">>>>

\* src/data.json
F_data == <<<<"s","r","c">>, <<"d","a","t","a",".","j","s","o","n">>>>

\* index.html
F_index == <<<<"i","n","d","e","x",".","h","t","m","l">>>>

EdgeTypes == {"import", "state_usage", "api_call"}

---------------------------------------------------------------------------
(* 3. _extract_edges: deduplication *)

\* A variant of TYPE_PRIORITY that ranks import above state_usage.
TypePriorityImportFirst(etype) ==
  CASE etype = "api_call" -> 0
    [] etype = "import" -> 1
    [] etype = "state_usage" -> 2
    [] OTHER -> 9

TYPE_PRIORITY(etype) ==
  CASE etype = "api_call" -> 0
    [] etype = "state_usage" -> 1
    [] etype = "import" -> 2
    [] OTHER -> 9

\* The position of key (src, tgt) in the seen dict, 0 when absent
SeenIndex(sn, src, tgt) ==
  IF \E i \in 1..Len(sn) : sn[i][1] = src /\ sn[i][2] = tgt
  THEN CHOOSE i \in 1..Len(sn) : sn[i][1] = src /\ sn[i][2] = tgt
  ELSE 0

\* A variant of the loop body that keeps every candidate it reads.
DedupOneKeepAll(sn, e) == Append(sn, e)

\* A variant of the loop body in which the first type seen for a pair stays.
DedupOneFirstWins(sn, e) ==
  IF e[1] = e[2] THEN sn
  ELSE IF SeenIndex(sn, e[1], e[2]) = 0 THEN Append(sn, e) ELSE sn

\* The body of the deduplication loop for candidate e = <<src, tgt, etype>>:
\* a self-referential candidate is skipped; a new key is inserted; a known key
\* takes the candidate's type when its priority number is lower.
DedupOne(sn, e) ==
  IF e[1] = e[2] THEN sn
  ELSE LET i == SeenIndex(sn, e[1], e[2])
       IN IF i = 0 THEN Append(sn, e)
          ELSE IF TYPE_PRIORITY(e[3]) < TYPE_PRIORITY(sn[i][3])
               THEN [sn EXCEPT ![i] = e]
               ELSE sn

\* The files the candidate edges of the deduplication model connect
EdgeFiles == {F_Home, F_user}

MaxEdges == 3

CandidateEdges == EdgeFiles \X EdgeFiles \X EdgeTypes

DedupInit ==
  /\ edges \in UNION { [1..n -> CandidateEdges] : n \in 0..MaxEdges }
  /\ seen = <<>>
  /\ dedup_i = 1
  /\ edge_list = "none"
  /\ dedup_pc = "loop"

DedupIdle ==
  /\ edges = <<>>
  /\ seen = <<>>
  /\ dedup_i = 1
  /\ edge_list = "none"
  /\ dedup_pc = "idle"

\* One iteration of `for src, tgt, etype in edges`
DedupStep ==
  /\ dedup_pc = "loop"
  /\ dedup_i <= Len(edges)
  /\ seen' = DedupOne(seen, edges[dedup_i])
  /\ dedup_i' = dedup_i + 1
  /\ UNCHANGED <<edges, edge_list, dedup_pc>>
  /\ UNCHANGED notDedup

\* The return statement: the items of seen, in insertion order
DedupReturn ==
  /\ dedup_pc = "loop"
  /\ dedup_i > Len(edges)
  /\ edge_list' = seen
  /\ dedup_pc' = "done"
  /\ UNCHANGED <<edges, seen, dedup_i>>
  /\ UNCHANGED notDedup

DedupNext == DedupStep \/ DedupReturn

---------------------------------------------------------------------------
(* Claims about deduplication *)

DedupReturned == dedup_pc = "done"

\* C1: the returned edge list holds no edge from a file to itself and at
\* most one edge for any ordered (source, target) pair.
C1_NoSelfLoopNoDuplicatePair ==
  DedupReturned =>
    /\ \A i \in 1..Len(edge_list) : edge_list[i][1] # edge_list[i][2]
    /\ \A i, j \in 1..Len(edge_list) :
         (edge_list[i][1] = edge_list[j][1] /\ edge_list[i][2] = edge_list[j][2]) => i = j

\* The loop has returned for candidates that held a self-referential edge and
\* two candidates for one pair.
C1_Witness ==
  /\ DedupReturned
  /\ \E i \in 1..Len(edges) : edges[i][1] = edges[i][2]
  /\ \E i, j \in 1..Len(edges) :
       i # j /\ edges[i][1] = edges[j][1] /\ edges[i][2] = edges[j][2] /\ edges[i][1] # edges[i][2]
  /\ edge_list # <<>>

\* The types of the candidates emitted for the pair (s, t)
TypesFor(s, t) == { edges[i][3] : i \in { k \in 1..Len(edges) : edges[k][1] = s /\ edges[k][2] = t } }

\* C2: for every pair (s, t) with s # t that has a candidate, the returned
\* list holds exactly one edge s -> t, and its type is the one of highest
\* priority (api_call over state_usage over import) among the pair's
\* candidates, whatever their order; a pair with no candidate has no edge.
C2_HighestPriorityTypeSurvives ==
  DedupReturned =>
    \A s \in EdgeFiles, t \in EdgeFiles :
      s # t =>
        LET got == { i \in 1..Len(edge_list) : edge_list[i][1] = s /\ edge_list[i][2] = t }
            cand == TypesFor(s, t)
        IN IF cand = {} THEN got = {}
           ELSE /\ Cardinality(got) = 1
                /\ \A i \in got :
                     /\ edge_list[i][3] \in cand
                     /\ \A ty \in cand : TYPE_PRIORITY(edge_list[i][3]) <= TYPE_PRIORITY(ty)
                /\ ("api_call" \in cand => \A i \in got : edge_list[i][3] = "api_call")

\* The loop has returned for a pair whose import candidate came before its
\* api_call candidate, and the pair's one edge is the api_call.
C2_Witness ==
  /\ DedupReturned
  /\ \E i, j \in 1..Len(edges) :
       /\ i < j
       /\ edges[i] = <<F_Home, F_user, "import">>
       /\ edges[j] = <<F_Home, F_user, "api_call">>
  /\ <<F_Home, F_user, "api_call">> \in Range(edge_list)

---------------------------------------------------------------------------
(* 2. Classification: the module tables *)

\* DIR_TYPE_MAP, the keys of each layer
DirsOf_publishing ==
  { <<"v","i","e","w","s">>, <<"p","a","g","e","s">>, <<"c","o","m","p","o","n","e","n","t","s">>,
    <<"c","o","m","p","o","n","e","n","t">>, <<"l","a","y","o","u","t","s">>,
    <<"l","a","y","o","u","t">>, <<"t","e","m","p","l","a","t","e","s">>,
    <<"t","e","m","p","l","a","t","e">> }

DirsOf_logic ==
  { <<"s","t","o","r","e","s">>, <<"s","t","o","r","e">>,
    <<"c","o","m","p","o","s","a","b","l","e","s">>, <<"h","o","o","k","s">>,
    <<"s","e","r","v","i","c","e","s">>, <<"s","e","r","v","i","c","e">> }

DirsOf_backend ==
  { <<"a","p","i">>, <<"r","o","u","t","e","s">>, <<"r","o","u","t","e">>,
    <<"s","e","r","v","e","r">>, <<"c","o","n","t","r","o","l","l","e","r","s">>,
    <<"c","o","n","t","r","o","l","l","e","r">>, <<"r","o","u","t","e","r","s">>,
    <<"r","o","u","t","e","r">>, <<"b","l","u","e","p","r","i","n","t","s">>,
    <<"b","l","u","e","p","r","i","n","t">> }

\* DIR_TYPE_MAP.get(name), "none" for a missing key
DIR_TYPE_MAP(name) ==
  CASE name \in DirsOf_publishing -> "publishing"
    [] name \in DirsOf_logic -> "logic"
    [] name \in DirsOf_backend -> "backend"
    [] OTHER -> "none"

\* EXT_TYPE_MAP, the keys of each layer
ExtsOf_publishing ==
  { <<".","v","u","e">>, <<".","j","s","x">>, <<".","t","s","x">>, <<".","h","t","m","l">>,
    <<".","c","s","s">>, <<".","s","c","s","s">>, <<".","l","e","s","s">>,
    <<".","s","v","e","l","t","e">> }

ExtsOf_logic ==
  { <<".","j","s">>, <<".","t","s">> }

ExtsOf_backend ==
  { <<".","p","y">>, <<".","r","b">>, <<".","g","o">>, <<".","j","a","v","a">>, <<".","r","s">> }

\* EXT_TYPE_MAP.get(ext), "none" for a missing key
EXT_TYPE_MAP(ext) ==
  CASE ext \in ExtsOf_publishing -> "publishing"
    [] ext \in ExtsOf_logic -> "logic"
    [] ext \in ExtsOf_backend -> "backend"
    [] OTHER -> "none"

SKIP_FILES ==
  { <<"_","_","i","n","i","t","_","_",".","p","y">>, <<"_","_","p","y","c","a","c","h","e","_","_">>,
    <<"s","e","t","u","p",".","p","y">>, <<"c","o","n","f","t","e","s","t",".","p","y">> }

Layers == <<"publishing", "logic", "backend", "other">>

Columns == <<"publishing", "logic", "backend">>

---------------------------------------------------------------------------
(* 2. Classification: _categorize_files *)

\* A variant of the directory loop that walks the components from the
\* root down, so that the shallowest directory of the table decides.
DirTypeShallowest(f) ==
  LET hits == { i \in 1..(Len(f) - 1) : DIR_TYPE_MAP(Lower(f[i])) # "none" }
  IN IF hits = {} THEN "none"
     ELSE DIR_TYPE_MAP(Lower(f[CHOOSE i \in hits : \A k \in hits : i <= k]))

\* The layer of the deepest directory component of f whose lower-cased name
\* is a key of DIR_TYPE_MAP, "none" when no component is
DirType(f) ==
  LET hits == { i \in 1..(Len(f) - 1) : DIR_TYPE_MAP(Lower(f[i])) # "none" }
  IN IF hits = {} THEN "none"
     ELSE DIR_TYPE_MAP(Lower(f[CHOOSE i \in hits : \A k \in hits : k <= i]))

\* A variant of the loop body without the `continue` after the route
\* decorator match: the file falls through to the extension table as well.
BucketsOfNoContinue(f, readFails, hasRoute) ==
  LET fname == f[Len(f)]
      ext == Lower(Suffix(fname))
      byExt == IF EXT_TYPE_MAP(ext) # "none" THEN <<EXT_TYPE_MAP(ext)>> ELSE <<"other">>
  IN IF Lower(fname) \in SKIP_FILES THEN <<"other">>
     ELSE IF DirType(f) # "none" THEN <<DirType(f)>>
     ELSE IF ext = <<".","p","y">> /\ ~readFails /\ hasRoute THEN <<"backend">> \o byExt
     ELSE byExt

\* The body of the loop of _categorize_files for file f: the buckets f is
\* appended to, in order (the code appends once on every path).  readFails:
\* read_text raises; hasRoute: the content matches the route decorator pattern.
BucketsOf(f, readFails, hasRoute) ==
  LET fname == f[Len(f)]
      ext == Lower(Suffix(fname))
  IN IF Lower(fname) \in SKIP_FILES THEN <<"other">>
     ELSE IF DirType(f) # "none" THEN <<DirType(f)>>
     ELSE IF ext = <<".","p","y">> /\ ~readFails /\ hasRoute THEN <<"backend">>
     ELSE IF EXT_TYPE_MAP(ext) # "none" THEN <<EXT_TYPE_MAP(ext)>>
     ELSE <<"other">>

\* buckets after the loop body has run for f
Categorize1(bk, f, readFails, hasRoute) ==
  LET into == BucketsOf(f, readFails, hasRoute)
  IN [l \in DOMAIN bk |->
        bk[l] \o [i \in 1..Len(SelectSeq(into, LAMBDA x : x = l)) |-> f]]

RECURSIVE CategorizeFiles(_, _, _, _)
\* _categorize_files: the loop over files, from the buckets bk
CategorizeFiles(bk, fs, unread, routes) ==
  IF fs = <<>> THEN bk
  ELSE CategorizeFiles(Categorize1(bk, Head(fs), Head(fs) \in unread, Head(fs) \in routes),
                       Tail(fs), unread, routes)

EmptyBuckets == [l \in Range(Layers) |-> <<>>]

\* _build_diagnostics, the counts
BuildDiagnostics(fs, bk) ==
  [ total_files |-> Len(fs),
    page_count |-> Len(bk["publishing"]),
    component_count |-> Len(bk["publishing"]),
    logic_count |-> Len(bk["logic"]),
    backend_count |-> Len(bk["backend"]),
    other_count |-> Len(bk["other"]) ]

---------------------------------------------------------------------------
(* 4. _generate_graph: layout constants and helpers *)

COL_X(col) ==
  CASE col = "publishing" -> 0
    [] col = "logic" -> 600
    [] col = "backend" -> 1200

GROUP_PAD_X == 20

GROUP_PAD_TOP == 40

GROUP_PAD_BOTTOM == 20

NODE_H == 80

NODE_GAP == 16

GROUP_GAP == 40

Max(a, b) == IF a >= b THEN a ELSE b

RECURSIVE JoinSlash(_)
\* "/".join(names)
JoinSlash(names) ==
  IF names = <<>> THEN <<>>
  ELSE IF Len(names) = 1 THEN names[1]
  ELSE names[1] \o <<"/">> \o JoinSlash(Tail(names))

RootKey == <<"(","r","o","o","t",")">>

\* dir_key of a file: str(rel.parent) with "." replaced by "(root)"
DirKey(f) == IF Len(f) = 1 THEN RootKey ELSE JoinSlash(SubSeq(f, 1, Len(f) - 1))

\* s.split("/")[-1]
LastSegment(s) ==
  LET slashes == { i \in 1..Len(s) : s[i] = "/" }
  IN IF slashes = {} THEN s
     ELSE SubSeq(s, (CHOOSE i \in slashes : \A k \in slashes : k <= i) + 1, Len(s))

\* dict.get(key, 0) on the degree dict
DegGet(deg, f) == IF f \in DOMAIN deg THEN deg[f] ELSE 0

\* Step 2: the degree dict built from edge_list
ComputeDegree(el) ==
  LET touched == { el[i][1] : i \in 1..Len(el) } \cup { el[i][2] : i \in 1..Len(el) }
  IN [f \in touched |->
        Cardinality({ i \in 1..Len(el) : el[i][1] = f })
        + Cardinality({ i \in 1..Len(el) : el[i][2] = f })]

\* Where list.sort(reverse=True) puts an item of key k into the sorted
\* sequence of <<key, item>> pairs s: behind every item whose key is >= k
InsertDesc(s, pair) ==
  LET n == Cardinality({ i \in 1..Len(s) : s[i][1] >= pair[1] })
  IN SubSeq(s, 1, n) \o <<pair>> \o SubSeq(s, n + 1, Len(s))

RECURSIVE StableSortDesc(_)
\* list.sort(key=..., reverse=True) on <<key, item>> pairs: descending by
\* key, items of equal key in their original order
StableSortDesc(s) ==
  IF s = <<>> THEN <<>>
  ELSE InsertDesc(StableSortDesc(SubSeq(s, 1, Len(s) - 1)), s[Len(s)])

\* Step 3 for one group: its files by degree, descending
SortFiles(fpaths, deg) ==
  LET keyed == [i \in 1..Len(fpaths) |-> <<DegGet(deg, fpaths[i]), fpaths[i]>>]
      sorted == StableSortDesc(keyed)
  IN [i \in 1..Len(sorted) |-> sorted[i][2]]

RECURSIVE SumDegree(_, _)
SumDegree(fpaths, deg) ==
  IF fpaths = <<>> THEN 0 ELSE DegGet(deg, Head(fpaths)) + SumDegree(Tail(fpaths), deg)

\* Step 4, the sort: the groups <<dir_key, fpaths>> by total degree, descending
SortGroups(group_list, deg) ==
  LET keyed == [i \in 1..Len(group_list) |-> <<SumDegree(group_list[i][2], deg), group_list[i]>>]
      sorted == StableSortDesc(keyed)
  IN [i \in 1..Len(sorted) |-> sorted[i][2]]

RECURSIVE CenterOutLoopAppendAbove(_, _, _, _, _)
\* A variant of the loop that appends to `above` instead of inserting at
\* its front.
CenterOutLoopAppendAbove(items, i, above, center, below) ==
  IF i >= Len(items) THEN above \o center \o below
  ELSE LET item == items[i + 1]
       IN IF i = 0 THEN CenterOutLoopAppendAbove(items, i + 1, above, <<item>>, below)
          ELSE IF i % 2 = 1 THEN CenterOutLoopAppendAbove(items, i + 1, Append(above, item), center, below)
          ELSE CenterOutLoopAppendAbove(items, i + 1, above, center, Append(below, item))

RECURSIVE CenterOutLoop(_, _, _, _, _)
\* The loop of _center_out from 0-based index i on
CenterOutLoop(items, i, above, center, below) ==
  IF i >= Len(items) THEN above \o center \o below
  ELSE LET item == items[i + 1]
       IN IF i = 0 THEN CenterOutLoop(items, i + 1, above, <<item>>, below)
          ELSE IF i % 2 = 1 THEN CenterOutLoop(items, i + 1, <<item>> \o above, center, below)
          ELSE CenterOutLoop(items, i + 1, above, center, Append(below, item))

\* A variant of _center_out that leaves the sorted order as it is.
CenterOutIdentity(items) == items

\* _center_out
CenterOut(items) ==
  IF Len(items) <= 1 THEN items
  ELSE CenterOutLoop(items, 0, <<>>, <<>>, <<>>)

RECURSIVE GroupFilesOverwrite(_, _)
\* A variant of Step 1 that assigns groups[dir_key] = [fpath] instead of
\* appending.
GroupFilesOverwrite(groups, fs) ==
  IF fs = <<>> THEN groups
  ELSE LET f == Head(fs)
           hit == { i \in 1..Len(groups) : groups[i][1] = DirKey(f) }
       IN IF hit = {}
          THEN GroupFilesOverwrite(Append(groups, <<DirKey(f), <<f>>>>), Tail(fs))
          ELSE LET i == CHOOSE k \in hit : TRUE
               IN GroupFilesOverwrite([groups EXCEPT ![i] = <<groups[i][1], <<f>>>>], Tail(fs))

RECURSIVE GroupFiles(_, _)
\* Step 1 for one bucket: groups.setdefault(dir_key, []).append(fpath), the
\* dict in insertion order as a sequence of <<dir_key, fpaths>>
GroupFiles(groups, fs) ==
  IF fs = <<>> THEN groups
  ELSE LET f == Head(fs)
           hit == { i \in 1..Len(groups) : groups[i][1] = DirKey(f) }
       IN IF hit = {}
          THEN GroupFiles(Append(groups, <<DirKey(f), <<f>>>>), Tail(fs))
          ELSE LET i == CHOOSE k \in hit : TRUE
               IN GroupFiles([groups EXCEPT ![i] = <<groups[i][1], Append(groups[i][2], f)>>],
                             Tail(fs))

\* A variant of group_h without the gaps between the rows.
GroupHNoRowGap(n) == GROUP_PAD_TOP + n * NODE_H + GROUP_PAD_BOTTOM

\* The height of the box of a group of n files
GroupH(n) == GROUP_PAD_TOP + n * NODE_H + Max(0, n - 1) * NODE_GAP + GROUP_PAD_BOTTOM

RECURSIVE CountFiles(_)
CountFiles(groups) ==
  IF groups = <<>> THEN 0 ELSE Len(Head(groups)[2]) + CountFiles(Tail(groups))

\* No node id (None)
NoId == <<"none">>

\* The directory node of Step 5
DirNode(col, gc, dir_key, n, y) ==
  [ id |-> <<"grp", col, gc>>, type |-> "directory", parentNode |-> NoId,
    x |-> COL_X(col), y |-> y, label |-> LastSegment(dir_key),
    fileCount |-> n, height |-> GroupH(n), target_file |-> <<>> ]

\* A variant of the file node of Step 5 that names no parent.
FileNodeNoParent(col, nc, gc, f, i) ==
  [ id |-> <<"node", col, nc>>, type |-> col, parentNode |-> NoId,
    x |-> GROUP_PAD_X, y |-> GROUP_PAD_TOP + i * (NODE_H + NODE_GAP), label |-> f[Len(f)],
    fileCount |-> 0, height |-> NODE_H, target_file |-> f ]

\* The file node of Step 5: the i-th (0-based) file of group number gc
FileNode(col, nc, gc, f, i) ==
  [ id |-> <<"node", col, nc>>, type |-> col, parentNode |-> <<"grp", col, gc>>,
    x |-> GROUP_PAD_X, y |-> GROUP_PAD_TOP + i * (NODE_H + NODE_GAP), label |-> f[Len(f)],
    fileCount |-> 0, height |-> NODE_H, target_file |-> f ]

RECURSIVE ColumnNodes(_, _, _, _, _)
\* Step 5 for one column: the nodes of its groups from y_cursor = y, with the
\* group and node counters at gc and nc
ColumnNodes(col, groups, y, gc, nc) ==
  IF groups = <<>> THEN <<>>
  ELSE LET dir_key == Head(groups)[1]
           fpaths == Head(groups)[2]
           n == Len(fpaths)
       IN <<DirNode(col, gc, dir_key, n, y)>>
          \o [i \in 1..n |-> FileNode(col, nc + i - 1, gc, fpaths[i], i - 1)]
          \o ColumnNodes(col, Tail(groups), y + GroupH(n) + GROUP_GAP, gc + 1, nc + n)

RECURSIVE CursorAfter(_, _)
\* y_cursor after the groups of a column
CursorAfter(groups, y) ==
  IF groups = <<>> THEN y
  ELSE CursorAfter(Tail(groups), y + GroupH(Len(Head(groups)[2])) + GROUP_GAP)

\* col_heights[bucket_type]
ColHeight(groups) ==
  IF groups # <<>> THEN Max(0, CursorAfter(groups, 0) - GROUP_GAP) ELSE 0

RECURSIVE LayoutNodes(_, _, _, _)
\* Step 5: the columns cols in order, the counters running across them
LayoutNodes(cols, sc, gc, nc) ==
  IF cols = <<>> THEN <<>>
  ELSE ColumnNodes(Head(cols), sc[Head(cols)], 0, gc, nc)
       \o LayoutNodes(Tail(cols), sc, gc + Len(sc[Head(cols)]), nc + CountFiles(sc[Head(cols)]))

\* node_id_map after Step 5
NodeIdMap(ns) ==
  LET fileNodes == { i \in 1..Len(ns) : ns[i].type # "directory" }
  IN [f \in { ns[i].target_file : i \in fileNodes } |->
        ns[CHOOSE i \in fileNodes :
             /\ ns[i].target_file = f
             /\ \A k \in fileNodes : ns[k].target_file = f => k <= i].id]

\* A variant of the centering offset that moves every column by the full
\* height difference.
CenterOffsetFull(max_h, col_h) == max_h - col_h

\* Step 6: offset = (max_h - col_heights[bucket_type]) / 2
CenterOffset(max_h, col_h) == (max_h - col_h) \div 2

MaxOf(S) == IF S = {} THEN 0 ELSE CHOOSE m \in S : \A k \in S : k <= m

\* Step 6 on one node: a directory node is moved by the offset of the first
\* column whose x it has; any other node is left alone
CenterNode(node, heights) ==
  IF node.type # "directory" THEN node
  ELSE LET max_h == MaxOf({ heights[c] : c \in Range(Columns) })
           hit == { i \in 1..Len(Columns) : node.x = COL_X(Columns[i]) }
       IN IF hit = {} THEN node
          ELSE LET c == Columns[CHOOSE i \in hit : \A k \in hit : i <= k]
               IN [node EXCEPT !.y = node.y + CenterOffset(max_h, heights[c])]

\* A variant of the edge filter that renders an edge whenever its source has
\* a node.
EdgeRenderedSourceOnly(e, idmap) == e[1] \in DOMAIN idmap

\* The test on one edge of edge_list before it is rendered
EdgeRendered(e, idmap) ==
  /\ e[1] \in DOMAIN idmap
  /\ e[2] \in DOMAIN idmap
  /\ idmap[e[1]] # idmap[e[2]]

\* node_id_map.get(rel)
IdGet(idmap, f) == IF f \in DOMAIN idmap THEN idmap[f] ELSE NoId

\* The typed edges built from edge_list
BuildEdges(el, idmap) ==
  LET kept == SelectSeq(el, LAMBDA e : EdgeRendered(e, idmap))
  IN [i \in 1..Len(kept) |->
        [ id |-> <<"e", IdGet(idmap, kept[i][1]), IdGet(idmap, kept[i][2])>>,
          source |-> IdGet(idmap, kept[i][1]),
          target |-> IdGet(idmap, kept[i][2]),
          type |-> kept[i][3],
          animated |-> (kept[i][3] = "api_call") ]]

---------------------------------------------------------------------------
(* analyze: the pipeline from the discovered files to the graph *)

\* The files of the sample project; a run analyzes any tree that holds at
\* most MaxFiles of them.
GraphUniverse == {F_Home, F_About, F_Nav, F_user, F_users, F_app, F_main, F_init, F_data, F_index}

MaxFiles == 3

\* The references the contents of the sample project's files can hold, each
\* <<source, target, type>> as per-file extraction appends it, in the order
\* extraction reaches them within one file.
RefUniverse ==
  << <<F_Home, F_Nav, "import">>,
     <<F_Home, F_About, "import">>,
     <<F_Home, F_user, "import">>,
     <<F_Home, F_user, "state_usage">>,
     <<F_Home, F_users, "api_call">>,
     <<F_Nav, F_Home, "import">>,
     <<F_main, F_data, "import">>,
     <<F_main, F_main, "api_call">>,
     <<F_app, F_users, "import">>,
     <<F_users, F_init, "import">>,
     <<F_index, F_main, "import">> >>

\* The lists os.walk can produce: under every directory, the files of its
\* subtree are adjacent and its own files come before those of its
\* subdirectories
IsWalkOrder(fs) ==
  /\ \A i, j \in 1..Len(fs) : i # j => fs[i] # fs[j]
  /\ \A k \in 1..Len(fs) : \A n \in 0..(Len(fs[k]) - 1) :
       LET d == SubSeq(fs[k], 1, n)
           under == { i \in 1..Len(fs) : IsPrefix(d, fs[i]) }
       IN /\ \A i, j \in under : \A m \in i..j : m \in under
          /\ \A i, j \in under :
               (Len(fs[i]) = n + 1 /\ Len(fs[j]) > n + 1) => i < j

IsPython(f) == Lower(Suffix(f[Len(f)])) = <<".","p","y">>

\* A variant that takes the references of a file whether or not its content
\* can be read.
FileCandidatesOfAnyFile(f, rf, unread) ==
  SelectSeq(RefUniverse, LAMBDA r : r[1] = f /\ r \in rf)

\* The candidate edges of one file: nothing when its content cannot be read
FileCandidates(f, rf, unread) ==
  IF f \in unread THEN <<>>
  ELSE SelectSeq(RefUniverse, LAMBDA r : r[1] = f /\ r \in rf)

RECURSIVE Candidates(_, _, _)
\* The edges list after the per-file extraction loop
Candidates(fs, rf, unread) ==
  IF fs = <<>> THEN <<>>
  ELSE FileCandidates(Head(fs), rf, unread) \o Candidates(Tail(fs), rf, unread)

RECURSIVE DedupAll(_, _)
\* The deduplication loop, run to its end
DedupAll(sn, es) ==
  IF es = <<>> THEN sn ELSE DedupAll(DedupOne(sn, Head(es)), Tail(es))

EmptyColumns == [c \in Range(Columns) |-> <<>>]

GraphIdle ==
  /\ files = <<>>
  /\ unreadable = {}
  /\ route_files = {}
  /\ refs = {}
  /\ buckets = EmptyBuckets
  /\ diagnostics = "none"
  /\ column_groups = EmptyColumns
  /\ degree = <<>>
  /\ sorted_columns = EmptyColumns
  /\ nodes = <<>>
  /\ node_id_map = <<>>
  /\ col_heights = [c \in Range(Columns) |-> 0]
  /\ graph_edges = <<>>
  /\ pc = "idle"

\* analyze after _scan_files has returned `files`
AnalyzeInit ==
  /\ files \in { fs \in UNION { [1..n -> GraphUniverse] : n \in 0..MaxFiles } :
                   /\ IsWalkOrder(fs)
                   /\ \A i \in 1..Len(fs) : PassesDiscoveryTests(fs[i]) }
  /\ unreadable \in { u \in SUBSET Range(files) : Cardinality(u) <= 1 }
  /\ route_files \in SUBSET { f \in Range(files) : IsPython(f) /\ DirType(f) = "none" }
  /\ refs \in SUBSET { r \in Range(RefUniverse) : r[1] \in Range(files) /\ r[2] \in Range(files) }
  /\ buckets = EmptyBuckets
  /\ diagnostics = "none"
  /\ column_groups = EmptyColumns
  /\ degree = <<>>
  /\ sorted_columns = EmptyColumns
  /\ nodes = <<>>
  /\ node_id_map = <<>>
  /\ col_heights = [c \in Range(Columns) |-> 0]
  /\ graph_edges = <<>>
  /\ pc = "categorize"

inputVars == <<files, unreadable, route_files, refs>>

\* buckets = self._categorize_files(root, files)
Categorize ==
  /\ pc = "categorize"
  /\ buckets' = CategorizeFiles(EmptyBuckets, files, unreadable, route_files)
  /\ pc' = "extract"
  /\ UNCHANGED <<inputVars, diagnostics, column_groups, degree, sorted_columns, nodes,
                 node_id_map, col_heights, graph_edges>>
  /\ UNCHANGED <<dedupVars, notGraph>>

\* edge_list, api_endpoints = self._extract_edges(root, files)
ExtractEdges ==
  /\ pc = "extract"
  /\ edges' = Candidates(files, refs, unreadable)
  /\ seen' = DedupAll(<<>>, edges')
  /\ dedup_i' = Len(edges') + 1
  /\ edge_list' = seen'
  /\ dedup_pc' = "done"
  /\ pc' = "diagnostics"
  /\ UNCHANGED <<inputVars, buckets, diagnostics, column_groups, degree, sorted_columns, nodes,
                 node_id_map, col_heights, graph_edges>>
  /\ UNCHANGED notGraph

\* diagnostics = self._build_diagnostics(framework, files, buckets)
Diagnose ==
  /\ pc = "diagnostics"
  /\ diagnostics' = BuildDiagnostics(files, buckets)
  /\ pc' = "step1"
  /\ UNCHANGED <<inputVars, buckets, column_groups, degree, sorted_columns, nodes,
                 node_id_map, col_heights, graph_edges>>
  /\ UNCHANGED <<dedupVars, notGraph>>

\* _generate_graph, Step 1: group the files of each column by directory
Step1 ==
  /\ pc = "step1"
  /\ column_groups' = [c \in Range(Columns) |-> GroupFiles(<<>>, buckets[c])]
  /\ pc' = "step2"
  /\ UNCHANGED <<inputVars, buckets, diagnostics, degree, sorted_columns, nodes,
                 node_id_map, col_heights, graph_edges>>
  /\ UNCHANGED <<dedupVars, notGraph>>

\* Step 2: the degree of each file
Step2 ==
  /\ pc = "step2"
  /\ degree' = ComputeDegree(edge_list)
  /\ pc' = "step3"
  /\ UNCHANGED <<inputVars, buckets, diagnostics, column_groups, sorted_columns, nodes,
                 node_id_map, col_heights, graph_edges>>
  /\ UNCHANGED <<dedupVars, notGraph>>

\* Step 3: sort the files of each group, in place
Step3 ==
  /\ pc = "step3"
  /\ column_groups' =
       [c \in Range(Columns) |->
          [i \in 1..Len(column_groups[c]) |->
             <<column_groups[c][i][1], SortFiles(column_groups[c][i][2], degree)>>]]
  /\ pc' = "step4"
  /\ UNCHANGED <<inputVars, buckets, diagnostics, degree, sorted_columns, nodes,
                 node_id_map, col_heights, graph_edges>>
  /\ UNCHANGED <<dedupVars, notGraph>>

\* Step 4: sort the groups of each column and place them center-out
Step4 ==
  /\ pc = "step4"
  /\ sorted_columns' =
       [c \in Range(Columns) |-> CenterOut(SortGroups(column_groups[c], degree))]
  /\ pc' = "step5"
  /\ UNCHANGED <<inputVars, buckets, diagnostics, column_groups, degree, nodes,
                 node_id_map, col_heights, graph_edges>>
  /\ UNCHANGED <<dedupVars, notGraph>>

\* Step 5: the group and file nodes with their coordinates
Step5 ==
  /\ pc = "step5"
  /\ nodes' = LayoutNodes(Columns, sorted_columns, 0, 0)
  /\ node_id_map' = NodeIdMap(nodes')
  /\ col_heights' = [c \in Range(Columns) |-> ColHeight(sorted_columns[c])]
  /\ pc' = "step6"
  /\ UNCHANGED <<inputVars, buckets, diagnostics, column_groups, degree, sorted_columns,
                 graph_edges>>
  /\ UNCHANGED <<dedupVars, notGraph>>

\* Step 6: vertical centering across columns
Step6 ==
  /\ pc = "step6"
  /\ nodes' = [i \in 1..Len(nodes) |-> CenterNode(nodes[i], col_heights)]
  /\ pc' = "build_edges"
  /\ UNCHANGED <<inputVars, buckets, diagnostics, column_groups, degree, sorted_columns,
                 node_id_map, col_heights, graph_edges>>
  /\ UNCHANGED <<dedupVars, notGraph>>

\* The typed edges, and the return of _generate_graph
BuildGraphEdges ==
  /\ pc = "build_edges"
  /\ graph_edges' = BuildEdges(edge_list, node_id_map)
  /\ pc' = "done"
  /\ UNCHANGED <<inputVars, buckets, diagnostics, column_groups, degree, sorted_columns,
                 nodes, node_id_map, col_heights>>
  /\ UNCHANGED <<dedupVars, notGraph>>

AnalyzeNext ==
  \/ Categorize
  \/ ExtractEdges
  \/ Diagnose
  \/ Step1
  \/ Step2
  \/ Step3
  \/ Step4
  \/ Step5
  \/ Step6
  \/ BuildGraphEdges

AnalyzeDone == pc = "done"

\* analyze holds the result of _build_diagnostics
DiagnosticsBuilt ==
  pc \in {"step1", "step2", "step3", "step4", "step5", "step6", "build_edges", "done"}

---------------------------------------------------------------------------
(* Claims about analyze *)

\* The positions in a node list of the file nodes, and of the directory nodes
FileNodeIdx(ns) == { i \in 1..Len(ns) : ns[i].type # "directory" }

DirNodeIdx(ns) == { i \in 1..Len(ns) : ns[i].type = "directory" }

\* C3: in every result, the source id and the target id of each emitted edge
\* are ids of file nodes of the emitted node list, and an extracted edge that
\* touches a file without a node is not rendered.
C3_EdgeEndsAreFileNodes ==
  AnalyzeDone =>
    LET fileIds == { nodes[i].id : i \in FileNodeIdx(nodes) }
        hasNode(f) == \E i \in FileNodeIdx(nodes) : nodes[i].target_file = f
    IN /\ \A k \in 1..Len(graph_edges) :
            graph_edges[k].source \in fileIds /\ graph_edges[k].target \in fileIds
       /\ Len(graph_edges)
            = Cardinality({ i \in 1..Len(edge_list) :
                              hasNode(edge_list[i][1]) /\ hasNode(edge_list[i][2]) })

\* A result with a rendered edge and with an extracted edge whose target is a
\* file of the bucket "other", which has no node.
C3_Witness ==
  /\ AnalyzeDone
  /\ graph_edges # <<>>
  /\ \E i \in 1..Len(edge_list) : edge_list[i][2] \in Range(buckets["other"])

\* C4: every file node names as its parent a directory node that stands
\* earlier in the node list, and the fileCount of every directory node is the
\* number of file nodes that name it.
C4_ParentGroupFirstAndCounted ==
  pc \in {"step6", "build_edges", "done"} =>
    /\ \A i \in FileNodeIdx(nodes) :
         \E g \in DirNodeIdx(nodes) : g < i /\ nodes[g].id = nodes[i].parentNode
    /\ \A g \in DirNodeIdx(nodes) :
         nodes[g].fileCount
           = Cardinality({ i \in FileNodeIdx(nodes) : nodes[i].parentNode = nodes[g].id })

\* A result with two directory nodes, one of them holding two file nodes.
C4_Witness ==
  /\ AnalyzeDone
  /\ Cardinality(DirNodeIdx(nodes)) >= 2
  /\ \E g \in DirNodeIdx(nodes) : nodes[g].fileCount = 2

\* How often file f stands in bucket l
CountIn(bk, l, f) == Cardinality({ i \in 1..Len(bk[l]) : bk[l][i] = f })

RECURSIVE SumOver(_, _)
SumOver(S, g) ==
  IF S = {} THEN 0 ELSE LET x == CHOOSE y \in S : TRUE IN g[x] + SumOver(S \ {x}, g)

\* After classification every discovered file stands in the four buckets
\* exactly once, and nothing else does
BucketsPartitionFiles ==
  pc \notin {"idle", "categorize"} =>
    /\ \A f \in Range(files) :
         SumOver(Range(Layers), [l \in Range(Layers) |-> CountIn(buckets, l, f)]) = 1
    /\ \A l \in Range(Layers) : Range(buckets[l]) \subseteq Range(files)
    /\ (DiagnosticsBuilt =>
          diagnostics.total_files
            = diagnostics.page_count + diagnostics.logic_count
              + diagnostics.backend_count + diagnostics.other_count)

\* C6: after classification every discovered file is in exactly one of the
\* four buckets, exactly once, so that total_files is the sum of the four
\* counts; and no later step of the run changes the buckets.
C6_OneBucketEachNeverMoved ==
  /\ []BucketsPartitionFiles
  /\ [][pc \notin {"idle", "categorize"} => buckets' = buckets]_vars

\* A finished run over files of three different buckets, one of them a Python
\* file classified by its route decorator.
C6_Witness ==
  /\ AnalyzeDone
  /\ Cardinality({ l \in Range(Layers) : buckets[l] # <<>> }) >= 3
  /\ \E f \in route_files : f \notin unreadable /\ f \in Range(buckets["backend"])
  /\ DiagnosticsBuilt

\* The number of file nodes whose target_files entry is f
NodesFor(f) == Cardinality({ i \in FileNodeIdx(nodes) : nodes[i].target_file = f })

\* C7 as claimed: every discovered file yields exactly one file node, and the
\* number of file nodes is diagnostics.total_files.
C7_Original_OneNodePerDiscoveredFile ==
  AnalyzeDone =>
    /\ Cardinality(FileNodeIdx(nodes)) = diagnostics.total_files
    /\ \A f \in Range(files) : NodesFor(f) = 1

\* C7 amended: every discovered file classified publishing, logic or backend
\* yields exactly one file node and a file classified other yields none: the
\* number of file nodes is total_files - other_count, and every file node
\* stands for a discovered file.
C7_OneNodePerLayeredFile ==
  AnalyzeDone =>
    /\ Cardinality(FileNodeIdx(nodes)) = diagnostics.total_files - diagnostics.other_count
    /\ \A f \in Range(files) :
         NodesFor(f) = (IF f \in Range(buckets["other"]) THEN 0 ELSE 1)
    /\ \A i \in FileNodeIdx(nodes) : nodes[i].target_file \in Range(files)

\* A result for a tree with a file of the bucket "other" and two files that
\* share a directory group.
C7_Witness ==
  /\ AnalyzeDone
  /\ buckets["other"] # <<>>
  /\ \E g \in DirNodeIdx(nodes) : nodes[g].fileCount = 2

\* The directory nodes of column c, in list order
ColumnDirs(c) == SelectSeq(nodes, LAMBDA n : n.type = "directory" /\ n.id[2] = c)

RECURSIVE SumHeights(_)
SumHeights(ds) == IF ds = <<>> THEN 0 ELSE Head(ds).height + SumHeights(Tail(ds))

\* The height of a column read off its directory nodes: the heights of its
\* groups and one gap between consecutive groups
ColumnHeightOf(c) ==
  IF ColumnDirs(c) = <<>> THEN 0
  ELSE SumHeights(ColumnDirs(c)) + (Len(ColumnDirs(c)) - 1) * GROUP_GAP

MaxColumnHeight == MaxOf({ ColumnHeightOf(c) : c \in Range(Columns) })

\* C9: after layout the y of the k-th directory node of a column is the
\* heights and gaps of the groups above it plus (max column height - the
\* column's height) / 2, a whole number that is 0 for the tallest column; the
\* i-th file node of a group keeps its relative y of 40 + i * 96.
C9_ColumnsCentered ==
  pc \in {"build_edges", "done"} =>
    /\ \A c \in Range(Columns) :
         LET ds == ColumnDirs(c)
             diff == MaxColumnHeight - ColumnHeightOf(c)
         IN /\ diff % 2 = 0
            /\ \A k \in 1..Len(ds) :
                 2 * ds[k].y = 2 * (SumHeights(SubSeq(ds, 1, k - 1)) + (k - 1) * GROUP_GAP) + diff
            /\ (ColumnHeightOf(c) = MaxColumnHeight => \A k \in 1..Len(ds) : k = 1 => ds[k].y = 0)
    /\ \A i \in FileNodeIdx(nodes) :
         LET g == CHOOSE j \in DirNodeIdx(nodes) :
                    j < i /\ \A m \in DirNodeIdx(nodes) : m < i => m <= j
         IN nodes[i].y = GROUP_PAD_TOP + (i - g - 1) * (NODE_H + NODE_GAP)

\* A layout with a column of two groups and a shorter column whose group was
\* moved down.
C9_Witness ==
  /\ AnalyzeDone
  /\ \E c \in Range(Columns) : Len(ColumnDirs(c)) >= 2
  /\ \E c \in Range(Columns) :
       /\ ColumnDirs(c) # <<>>
       /\ ColumnHeightOf(c) < MaxColumnHeight
       /\ ColumnDirs(c)[1].y > 0

---------------------------------------------------------------------------
(* The ordering of the directory groups of a column (Steps 2 to 4 of       *)
(* _generate_graph) on projects with up to MaxGroups page directories      *)

MaxGroups == 5

DigitChar == <<"1","2","3","4","5","6","7","8","9">>

\* d<k>/p.vue, the page of the k-th page directory
PageFile(k) == <<<<"d", DigitChar[k]>>, <<"p",".","v","u","e">>>>

\* d2/q.vue, a second page of the second page directory
F_q == <<<<"d","2">>, <<"q",".","v","u","e">>>>

\* The files the pages refer to: a store and a backend module
HubFiles == <<F_user, F_users>>

\* The discovered files of a project with n page directories, in walk order
CenterFiles(n) ==
  IF n <= 1 THEN [k \in 1..n |-> PageFile(k)] \o HubFiles
  ELSE <<PageFile(1), PageFile(2), F_q>> \o [k \in 1..(n - 2) |-> PageFile(k + 2)] \o HubFiles

\* Every reference from a page to a hub file, in the order of extraction
CenterRefs(n) ==
  LET pages == SubSeq(CenterFiles(n), 1, Len(CenterFiles(n)) - Len(HubFiles))
      np == Len(pages)
      nh == Len(HubFiles)
  IN [i \in 1..(np * nh) |->
        <<pages[((i - 1) \div nh) + 1], HubFiles[((i - 1) % nh) + 1],
          IF ((i - 1) % nh) = 0 THEN "state_usage" ELSE "api_call">>]

\* _generate_graph after Step 1, for a project of n page directories whose
\* pages hold any subset of the references
CenterInit ==
  \E n \in 0..MaxGroups :
    \E chosen \in SUBSET (1..Len(CenterRefs(n))) :
      /\ files = CenterFiles(n)
      /\ unreadable = {}
      /\ route_files = {}
      /\ refs = { CenterRefs(n)[i] : i \in chosen }
      /\ buckets = CategorizeFiles(EmptyBuckets, files, {}, {})
      /\ diagnostics = BuildDiagnostics(files, buckets)
      /\ edges = SelectSeq(CenterRefs(n), LAMBDA r : r \in refs)
      /\ seen = DedupAll(<<>>, edges)
      /\ dedup_i = Len(edges) + 1
      /\ edge_list = seen
      /\ dedup_pc = "done"
      /\ column_groups = [c \in Range(Columns) |-> GroupFiles(<<>>, buckets[c])]
      /\ degree = <<>>
      /\ sorted_columns = EmptyColumns
      /\ nodes = <<>>
      /\ node_id_map = <<>>
      /\ col_heights = [c \in Range(Columns) |-> 0]
      /\ graph_edges = <<>>
      /\ pc = "step2"

CenterNext == Step2 \/ Step3 \/ Step4

\* Step 4 has ordered the columns
GroupsOrdered == pc = "step5"

\* The aggregate degree of the group at position i of a column
Aggregate(c, i) == SumDegree(sorted_columns[c][i][2], degree)

\* No two groups of the column have the same aggregate degree
StrictDegrees(c) ==
  \A i, j \in 1..Len(sorted_columns[c]) : i # j => Aggregate(c, i) # Aggregate(c, j)

\* Claim C8: in a column of n >= 1 directory groups whose aggregate degrees
\* are pairwise different (strictly decreasing when listed g0, g1, ...), the
\* group of the highest aggregate degree, g0, stands at the middle of the
\* final ordering, 0-based index floor(n/2), that is position floor(n/2) + 1.
C8_TopGroupInTheMiddle ==
  GroupsOrdered =>
    \A c \in Range(Columns) :
      LET n == Len(sorted_columns[c])
      IN (n >= 1 /\ StrictDegrees(c)) =>
           /\ Len(column_groups[c]) = n
           /\ \A i \in 1..n : Aggregate(c, (n \div 2) + 1) >= Aggregate(c, i)

\* A column of an even number (at least four) of groups of pairwise different
\* aggregate degrees whose top group was not the first one found.
C8_Witness ==
  /\ GroupsOrdered
  /\ \E c \in Range(Columns) :
       /\ Len(sorted_columns[c]) >= 3
       /\ StrictDegrees(c)
       /\ sorted_columns[c][(Len(sorted_columns[c]) \div 2) + 1] # column_groups[c][1]
       /\ Len(sorted_columns[c]) % 2 = 0

---------------------------------------------------------------------------
(* _match_api_route and the API call step of _extract_edges, on the call   *)
(* literals of one frontend file                                           *)

MaxRoutes == 2

MaxCalls == 2

\* /api/users/<id>
R_users_id == <<"/","a","p","i","/","u","s","e","r","s","/","<","i","d",">">>

\* /<id>
R_id == <<"/","<","i","d",">">>

\* /api/users
R_users == <<"/","a","p","i","/","u","s","e","r","s">>

\* /users
R_short == <<"/","u","s","e","r","s">>

\* *
R_all == <<"*">>

\* /api/*
R_api_all == <<"/","a","p","i","/","*">>

\* /a.c
R_dot == <<"/","a",".","c">>

\* The routes backend files may declare, each with the file that declares it.
\* Their only characters with a meaning in a regular expression are . and *
\* (and the < > of a parameter).
RouteUniverse ==
  << <<R_users_id, F_users>>,
     <<R_id, F_users>>,
     <<R_users, F_app>>,
     <<R_short, F_app>>,
     <<R_all, F_main>>,
     <<R_api_all, F_main>>,
     <<R_dot, F_app>> >>

\* /api/users/42
P_user42 == <<"/","a","p","i","/","u","s","e","r","s","/","4","2">>

\* /api/users/
P_slash == <<"/","a","p","i","/","u","s","e","r","s","/">>

\* /api/users?x=1
P_query == <<"/","a","p","i","/","u","s","e","r","s","?","x","=","1">>

\* ${B}/api/users
P_base == <<"$","{","B","}","/","a","p","i","/","u","s","e","r","s">>

\* /api/users/${id}
P_var == <<"/","a","p","i","/","u","s","e","r","s","/","$","{","i","d","}">>

\* /abc
P_abc == <<"/","a","b","c">>

\* /x/users
P_xusers == <<"/","x","/","u","s","e","r","s">>

\* /api
P_api == <<"/","a","p","i">>

\* The call literals a frontend file may hold
PathUniverse == { P_user42, P_slash, P_query, P_base, P_var, P_abc, P_xusers, P_api }

\* The frontend file whose content is scanned
CallSource == F_Home

\* What _match_api_route gives: a target, None, or an exception
Found(target) == <<"target", target>>

NoTarget == <<"none">>

Raised == <<"raise">>

\* The index of the first c in s at or after position from, 0 when there is
\* none
IndexFrom(s, c, from) ==
  LET hits == { i \in from..Len(s) : s[i] = c }
  IN IF hits = {} THEN 0 ELSE CHOOSE i \in hits : \A k \in hits : i <= k

\* re.sub(r'^\$\{[^}]*\}', '', api_path)
StripVarPrefix(s) ==
  IF Len(s) >= 2 /\ s[1] = "$" /\ s[2] = "{" /\ IndexFrom(s, "}", 3) # 0
  THEN SubSeq(s, IndexFrom(s, "}", 3) + 1, Len(s))
  ELSE s

RECURSIVE ReplaceVars(_, _)
\* re.sub(r'\$\{[^}]*\}', '*', s), from position i on
ReplaceVars(s, i) ==
  IF i > Len(s) THEN <<>>
  ELSE IF s[i] = "$" /\ i < Len(s) /\ s[i + 1] = "{" /\ IndexFrom(s, "}", i + 2) # 0
       THEN <<"*">> \o ReplaceVars(s, IndexFrom(s, "}", i + 2) + 1)
       ELSE <<s[i]>> \o ReplaceVars(s, i + 1)

\* s.split('?')[0]
BeforeQuery(s) ==
  LET q == IndexFrom(s, "?", 1)
  IN IF q = 0 THEN s ELSE SubSeq(s, 1, q - 1)

RECURSIVE RStripSlash(_)
\* s.rstrip('/')
RStripSlash(s) ==
  IF s # <<>> /\ s[Len(s)] = "/" THEN RStripSlash(SubSeq(s, 1, Len(s) - 1)) ELSE s

\* key in route_map
RouteHas(rm, key) == \E i \in 1..Len(rm) : rm[i][1] = key

\* route_map[key]
RouteGet(rm, key) == rm[CHOOSE i \in 1..Len(rm) : rm[i][1] = key][2]

RECURSIVE ParamSub(_, _)
\* re.sub(r'<[^>]+>', '[^/]+', route_pattern) from position i on; the class
\* put in for a parameter is kept as the one token "SEG"
ParamSub(s, i) ==
  IF i > Len(s) THEN <<>>
  ELSE IF s[i] = "<" /\ IndexFrom(s, ">", i + 1) >= i + 2
       THEN <<"SEG">> \o ParamSub(s, IndexFrom(s, ">", i + 1) + 1)
       ELSE <<s[i]>> \o ParamSub(s, i + 1)

\* The pattern [^/]+ : one or more characters other than the slash
SegAtom == <<"notslash", "/", "plus">>

RECURSIVE Compile(_, _, _)
\* What re makes of the pattern text, token i on: a sequence of atoms
\* <<class, character, quantifier>>, or an error. A dot is any character, a
\* star repeats the atom before it, and raises re.error when there is no
\* atom before it ("nothing to repeat") or that atom is repeated already
\* ("multiple repeat").
Compile(tokens, i, atoms) ==
  IF i > Len(tokens) THEN <<"ok", atoms>>
  ELSE IF tokens[i] = "SEG" THEN Compile(tokens, i + 1, Append(atoms, SegAtom))
  ELSE IF tokens[i] = "." THEN Compile(tokens, i + 1, Append(atoms, <<"any", ".", "one">>))
  ELSE IF tokens[i] = "*"
       THEN IF atoms = <<>> \/ atoms[Len(atoms)][3] # "one"
            THEN <<"error">>
            ELSE Compile(tokens, i + 1,
                         [atoms EXCEPT ![Len(atoms)] = <<@[1], @[2], "star">>])
  ELSE Compile(tokens, i + 1, Append(atoms, <<"lit", tokens[i], "one">>))

\* Whether the atom takes the character c
AtomAccepts(atom, c) ==
  IF atom[1] = "lit" THEN c = atom[2]
  ELSE IF atom[1] = "any" THEN c # "\n"
  ELSE c # "/"

RECURSIVE MatchFrom(_, _, _, _)
\* Whether the atoms from i on match all of s from position j on
MatchFrom(atoms, i, s, j) ==
  IF i > Len(atoms) THEN j > Len(s)
  ELSE IF atoms[i][3] = "one"
       THEN j <= Len(s) /\ AtomAccepts(atoms[i], s[j]) /\ MatchFrom(atoms, i + 1, s, j + 1)
       ELSE \E k \in (IF atoms[i][3] = "plus" THEN 1 ELSE 0)..(Len(s) - j + 1) :
              /\ \A m \in j..(j + k - 1) : AtomAccepts(atoms[i], s[m])
              /\ MatchFrom(atoms, i + 1, s, j + k)

RECURSIVE ParamMatch(_, _, _)
\* The parameter loop of _match_api_route from entry i of the route dict on
ParamMatch(rm, i, clean) ==
  IF i > Len(rm) THEN NoTarget
  ELSE LET regex_pattern == Compile(ParamSub(rm[i][1], 1), 1, <<>>)
       IN IF regex_pattern[1] = "error" THEN Raised
          ELSE IF MatchFrom(regex_pattern[2], 1, clean, 1) THEN Found(rm[i][2])
          ELSE ParamMatch(rm, i + 1, clean)

RECURSIVE SuffixMatch(_, _, _)
\* The suffix loop of _match_api_route from entry i of the route dict on
SuffixMatch(rm, i, clean) ==
  IF i > Len(rm) THEN NoTarget
  ELSE IF StartsWith(rm[i][1], <<"/">>) /\ EndsWith(clean, rm[i][1]) THEN Found(rm[i][2])
  ELSE SuffixMatch(rm, i + 1, clean)

\* _match_api_route
MatchApiRoute(api_path, rm) ==
  LET normalized == StripVarPrefix(api_path)
      clean == RStripSlash(BeforeQuery(normalized))
  IN IF RouteHas(rm, normalized) THEN Found(RouteGet(rm, normalized))
     ELSE IF RouteHas(rm, clean) THEN Found(RouteGet(rm, clean))
     ELSE IF ParamMatch(rm, 1, clean) # NoTarget THEN ParamMatch(rm, 1, clean)
     ELSE SuffixMatch(rm, 1, clean)

\* ep_list = api_endpoints.setdefault(key, []), then the append of an
\* endpoint that is not in the list yet
EndpointsAdd(eps, key, clean) ==
  LET hit == { i \in 1..Len(eps) : eps[i][1] = key }
  IN IF hit = {} THEN Append(eps, <<key, <<clean>>>>)
     ELSE LET i == CHOOSE k \in hit : TRUE
          IN IF clean \in Range(eps[i][2]) THEN eps
             ELSE [eps EXCEPT ![i] = <<key, Append(eps[i][2], clean)>>]

RouteIdle ==
  /\ route_map = <<>>
  /\ api_calls = <<>>
  /\ call_i = 1
  /\ call_results = <<>>
  /\ api_edges = <<>>
  /\ api_endpoints = <<>>
  /\ route_pc = "idle"

\* The API call step at its start: a route dict of at most MaxRoutes routes
\* and a file content with at most MaxCalls call literals
RouteInit ==
  /\ route_map \in { rm \in UNION { [1..n -> Range(RouteUniverse)] : n \in 0..MaxRoutes } :
                       \A i, j \in 1..Len(rm) : i # j => rm[i][1] # rm[j][1] }
  /\ api_calls \in UNION { [1..n -> PathUniverse] : n \in 0..MaxCalls }
  /\ call_i = 1
  /\ call_results = <<>>
  /\ api_edges = <<>>
  /\ api_endpoints = <<>>
  /\ route_pc = "calls"

\* One iteration of `for m in api_call_re.finditer(content)`
ApiCall ==
  /\ route_pc = "calls"
  /\ call_i <= Len(api_calls)
  /\ LET api_path == api_calls[call_i]
         target == MatchApiRoute(api_path, route_map)
     IN /\ call_results' = Append(call_results, target)
        /\ IF target = Raised
           THEN /\ route_pc' = "raised"
                /\ UNCHANGED <<call_i, api_edges, api_endpoints>>
           ELSE /\ route_pc' = "calls"
                /\ call_i' = call_i + 1
                /\ IF target = NoTarget
                   THEN UNCHANGED <<api_edges, api_endpoints>>
                   ELSE /\ api_edges' = Append(api_edges, <<CallSource, target[2], "api_call">>)
                        /\ api_endpoints' =
                             EndpointsAdd(api_endpoints, <<CallSource, target[2]>>,
                                          ReplaceVars(StripVarPrefix(api_path), 1))
  /\ UNCHANGED <<route_map, api_calls>>
  /\ UNCHANGED <<scanVars, dedupVars, graphVars, storeVars, fwVars, rqVars, ixVars, shVars, fsVars, wfVars, exVars>>

RouteNext == ApiCall

\* The claimed reading of a route: every character but a <param> stands for
\* itself
LiteralAtoms(route) ==
  LET tokens == ParamSub(route, 1)
  IN [i \in 1..Len(tokens) |->
        IF tokens[i] = "SEG" THEN SegAtom ELSE <<"lit", tokens[i], "one">>]

\* The first route, in the order of the dict, that satisfies the test
FirstRoute(rm, Test(_)) ==
  LET hits == { i \in 1..Len(rm) : Test(rm[i][1]) }
  IN IF hits = {} THEN NoTarget
     ELSE Found(rm[CHOOSE i \in hits : \A k \in hits : i <= k][2])

\* The target the four rules give, in their order, or none
ClaimedTarget(api_path, rm) ==
  LET normalized == StripVarPrefix(api_path)
      clean == RStripSlash(BeforeQuery(normalized))
      ByParams(route) == MatchFrom(LiteralAtoms(route), 1, clean, 1)
      BySuffix(route) == StartsWith(route, <<"/">>) /\ EndsWith(clean, route)
  IN IF RouteHas(rm, normalized) THEN Found(RouteGet(rm, normalized))
     ELSE IF RouteHas(rm, clean) THEN Found(RouteGet(rm, clean))
     ELSE IF FirstRoute(rm, ByParams) # NoTarget THEN FirstRoute(rm, ByParams)
     ELSE FirstRoute(rm, BySuffix)

\* Claim C10: _match_api_route returns the target of the first rule that
\* succeeds, in the order exact key, exact key without query string and
\* trailing slashes, full match against a route whose <param> parts each
\* stand for one non-empty slash-free segment, suffix match with a route that
\* begins with a slash, and no target when none succeeds; with the routes
\* /api/users/<id> and /<id> of one backend file, the call /api/users/42 gives
\* one api_call edge to that file with the endpoint /api/users/42.
C10_MatchFollowsTheRules ==
  /\ \A k \in 1..Len(call_results) :
       call_results[k] = ClaimedTarget(api_calls[k], route_map)
  /\ ( /\ route_map = <<<<R_users_id, F_users>>, <<R_id, F_users>>>>
       /\ api_calls = <<P_user42>>
       /\ call_i = 2 )
     => /\ api_edges = <<<<CallSource, F_users, "api_call">>>>
        /\ api_endpoints = <<<<<<CallSource, F_users>>, <<P_user42>>>>>>

---------------------------------------------------------------------------
(* The JS-family branch of _extract_edges for one source file: import      *)
(* tracing, state usage, API calls, then the deduplication loop            *)

MaxStatements == 2

\* src/stores/user.ts
F_user_ts == <<<<"s","r","c">>, <<"s","t","o","r","e","s">>, <<"u","s","e","r",".","t","s">>>>

\* src/stores/index.js
F_stores_index == <<<<"s","r","c">>, <<"s","t","o","r","e","s">>, <<"i","n","d","e","x",".","j","s">>>>

\* @/stores/user
S_alias_user == <<"@","/","s","t","o","r","e","s","/","u","s","e","r">>

\* ../stores/user
S_rel_user == <<".",".","/","s","t","o","r","e","s","/","u","s","e","r">>

\* @/stores
S_alias_stores == <<"@","/","s","t","o","r","e","s">>

\* @/components/Nav
S_alias_nav == <<"@","/","c","o","m","p","o","n","e","n","t","s","/","N","a","v">>

\* pinia-store
S_bare == <<"p","i","n","i","a","-","s","t","o","r","e">>

\* ../../../stores/user
S_above == <<".",".","/",".",".","/",".",".","/","s","t","o","r","e","s","/","u","s","e","r">>

\* The import statements a content may hold, <<form, specifier>>:
\*   "named"      import { a } from 'specifier'      on one line
\*   "multiline"  import { a } from 'specifier'      the braces over several lines
\*   "default"    import a from 'specifier'
\*   "require"    require('specifier')
StatementUniverse ==
  { <<"named", S_alias_user>>, <<"named", S_rel_user>>, <<"multiline", S_alias_user>>,
    <<"default", S_alias_user>>, <<"named", S_alias_stores>>, <<"named", S_alias_nav>>,
    <<"named", S_bare>>, <<"named", S_above>>, <<"require", S_rel_user>> }

\* The files a JS project of the model may index besides the source file
StoreFiles == {F_user, F_user_ts, F_stores_index, F_Nav}

\* Whether sub occurs in s
Contains(s, sub) == \E i \in 1..(Len(s) - Len(sub) + 1) : SubSeq(s, i, i + Len(sub) - 1) = sub

RECURSIVE SplitSlash(_)
\* The parts pathlib makes of a path text: the pieces between slashes, empty
\* pieces and "." pieces dropped
SplitSlash(s) ==
  IF s = <<>> THEN <<>>
  ELSE LET cut == IndexFrom(s, "/", 1)
           piece == IF cut = 0 THEN s ELSE SubSeq(s, 1, cut - 1)
           rest == IF cut = 0 THEN <<>> ELSE SubSeq(s, cut + 1, Len(s))
       IN IF piece = <<>> \/ piece = <<".">> THEN SplitSlash(rest)
          ELSE <<piece>> \o SplitSlash(rest)

\* A location above the root (relative_to(root) raises ValueError for it)
Outside == <<<<"(", "outside", ")">>>>

RECURSIVE ResolveParts(_, _)
\* Path.resolve() on root / base / parts: ".." steps to the parent; a path
\* that leaves the root is Outside
ResolveParts(base, parts) ==
  IF parts = <<>> THEN base
  ELSE IF Head(parts) = <<".", ".">>
       THEN IF base = <<>> THEN Outside
            ELSE ResolveParts(SubSeq(base, 1, Len(base) - 1), Tail(parts))
       ELSE ResolveParts(Append(base, Head(parts)), Tail(parts))

\* The suffixes _resolve_js_import probes, in order: <<text added to the last
\* name, name of a file inside the candidate>>
JsExtensions ==
  << <<<<>>, <<>>>>,
     <<<<".","j","s">>, <<>>>>,
     <<<<".","t","s">>, <<>>>>,
     <<<<".","j","s","x">>, <<>>>>,
     <<<<".","t","s","x">>, <<>>>>,
     <<<<".","v","u","e">>, <<>>>>,
     <<<<>>, <<"i","n","d","e","x",".","j","s">>>>,
     <<<<>>, <<"i","n","d","e","x",".","t","s">>>>,
     <<<<>>, <<"i","n","d","e","x",".","v","u","e">>>> >>

\* Path(str(candidate) + ext), relative to the root
WithExtension(candidate, ext) ==
  IF candidate = Outside THEN Outside
  ELSE IF ext[2] # <<>> THEN Append(candidate, ext[2])
  ELSE IF ext[1] = <<>> THEN candidate
  ELSE IF candidate = <<>> THEN Outside
  ELSE [candidate EXCEPT ![Len(candidate)] = @ \o ext[1]]

\* No file resolved
NoFile == <<>>

RECURSIVE ProbeExtensions(_, _, _, _)
\* The loop over extensions from entry i on
ProbeExtensions(candidate, i, disk, indexed) ==
  IF i > Len(JsExtensions) THEN NoFile
  ELSE LET test == WithExtension(candidate, JsExtensions[i])
       IN IF test \in disk /\ test \in indexed THEN test
          ELSE ProbeExtensions(candidate, i + 1, disk, indexed)

\* _resolve_js_import
ResolveJsImport(source, imp, disk, indexed) ==
  IF StartsWith(imp, <<"@", "/">>)
  THEN ProbeExtensions(
         ResolveParts(<<>>, SplitSlash(<<"s","r","c","/">> \o SubSeq(imp, 3, Len(imp)))),
         1, disk, indexed)
  ELSE IF StartsWith(imp, <<".">>)
  THEN ProbeExtensions(
         ResolveParts(SubSeq(source, 1, Len(source) - 1), SplitSlash(imp)),
         1, disk, indexed)
  ELSE NoFile

\* Whether js_import_re matches the statement (its . does not cross a line end)
IsEsImport(st) == st[1] \in {"named", "default"}

\* Whether js_require_re matches the statement
IsRequire(st) == st[1] = "require"

\* Whether store_import_re matches the statement
IsStoreImport(st) == st[1] \in {"named", "multiline"} /\ Contains(st[2], <<"s","t","o","r","e">>)

RECURSIVE EdgesOf(_, _, _, _, _, _)
\* The edges one finditer loop appends: for each statement that Matches, in
\* order, an edge of type etype to the file its specifier resolves to
EdgesOf(source, content, Matches(_), etype, disk, indexed) ==
  IF content = <<>> THEN <<>>
  ELSE LET st == Head(content)
           resolved == ResolveJsImport(source, st[2], disk, indexed)
           rest == EdgesOf(source, Tail(content), Matches, etype, disk, indexed)
       IN IF Matches(st) /\ resolved # NoFile
          THEN <<<<source, resolved, etype>>>> \o rest
          ELSE rest

\* A require is resolved only when its specifier starts with a dot
IsRelativeRequire(st) == IsRequire(st) /\ StartsWith(st[2], <<".">>)

StoreIdle ==
  /\ js_source = <<>>
  /\ js_content = <<>>
  /\ use_store = FALSE
  /\ all_rel_paths = {}
  /\ disk_files = {}
  /\ api_hits = <<>>
  /\ js_pc = "idle"

\* _extract_edges when it reaches the JS-family branch for fpath
StoreInit ==
  /\ js_source \in {F_Home, F_user}
  /\ js_content \in UNION { [1..n -> StatementUniverse] : n \in 0..MaxStatements }
  /\ use_store \in BOOLEAN
  /\ all_rel_paths \in { {js_source} \cup fs : fs \in SUBSET StoreFiles }
  /\ disk_files \in { all_rel_paths \cup extra : extra \in SUBSET ({F_user} \ all_rel_paths) }
  /\ api_hits \in { <<>>, <<F_user>> }
  /\ js_pc = "imports"

storeInputs == <<js_source, js_content, use_store, all_rel_paths, disk_files, api_hits>>

\* A. Static import tracing: ES imports, then CommonJS requires
JsImports ==
  /\ js_pc = "imports"
  /\ edges' = edges
              \o EdgesOf(js_source, js_content, IsEsImport, "import", disk_files, all_rel_paths)
              \o EdgesOf(js_source, js_content, IsRelativeRequire, "import", disk_files, all_rel_paths)
  /\ js_pc' = "state"
  /\ UNCHANGED <<seen, dedup_i, edge_list, dedup_pc>>
  /\ UNCHANGED storeInputs
  /\ UNCHANGED <<scanVars, graphVars, routeVars, fwVars, rqVars, ixVars, shVars, fsVars, wfVars, exVars>>

\* B. State usage
JsStateUsage ==
  /\ js_pc = "state"
  /\ edges' = IF use_store
              THEN edges \o EdgesOf(js_source, js_content, IsStoreImport, "state_usage",
                                    disk_files, all_rel_paths)
              ELSE edges
  /\ js_pc' = "api"
  /\ UNCHANGED <<seen, dedup_i, edge_list, dedup_pc>>
  /\ UNCHANGED storeInputs
  /\ UNCHANGED <<scanVars, graphVars, routeVars, fwVars, rqVars, ixVars, shVars, fsVars, wfVars, exVars>>

\* C and D. The api_call edges of the file; the deduplication loop follows
JsApiCalls ==
  /\ js_pc = "api"
  /\ edges' = edges \o [i \in 1..Len(api_hits) |-> <<js_source, api_hits[i], "api_call">>]
  /\ js_pc' = "done"
  /\ dedup_pc' = "loop"
  /\ UNCHANGED <<seen, dedup_i, edge_list>>
  /\ UNCHANGED storeInputs
  /\ UNCHANGED <<scanVars, graphVars, routeVars, fwVars, rqVars, ixVars, shVars, fsVars, wfVars, exVars>>

StoreNext == JsImports \/ JsStateUsage \/ JsApiCalls \/ DedupStep \/ DedupReturn

\* The positions of the edges source -> target in the returned edge list
EdgePositions(source, target) ==
  { i \in 1..Len(edge_list) : edge_list[i][1] = source /\ edge_list[i][2] = target }

\* The file a store import of the content resolves to
StoreTarget(st) == ResolveJsImport(js_source, st[2], disk_files, all_rel_paths)

\* The statement is a store-flavored destructured import that resolves to an
\* indexed file other than the source, in a file that calls use*Store(, and
\* no api_call connects the two files
StoreUsage(st) ==
  /\ use_store
  /\ IsStoreImport(st)
  /\ StoreTarget(st) # NoFile
  /\ StoreTarget(st) # js_source
  /\ StoreTarget(st) \notin Range(api_hits)

\* Claim C11: when a JS-family file F calls use*Store( and holds a
\* destructured import whose specifier contains "store" and resolves to an
\* indexed file G other than F, and no api_call connects F to G, the returned
\* edge list holds exactly one edge F -> G, of type state_usage.
C11_StoreImportGivesOneStateUsageEdge ==
  (js_pc = "done" /\ DedupReturned) =>
    \A k \in 1..Len(js_content) :
      StoreUsage(js_content[k]) =>
        /\ Cardinality(EdgePositions(js_source, StoreTarget(js_content[k]))) = 1
        /\ \A i \in EdgePositions(js_source, StoreTarget(js_content[k])) :
             edge_list[i][3] = "state_usage"

\* Home.vue imports { useUserStore } from '@/stores/user' on one line and
\* calls it: the import edge and the state_usage edge were both candidates.
C11_Witness ==
  /\ js_pc = "done"
  /\ DedupReturned
  /\ js_source = F_Home
  /\ \E k \in 1..Len(js_content) :
       /\ js_content[k] = <<"named", S_alias_user>>
       /\ StoreUsage(js_content[k])
       /\ StoreTarget(js_content[k]) = F_user
  /\ \E i, j \in 1..Len(edges) :
       /\ edges[i] = <<F_Home, F_user, "import">>
       /\ edges[j] = <<F_Home, F_user, "state_usage">>

---------------------------------------------------------------------------
(* _detect_framework                                                       *)

MaxReqs == 2

MaxRootPy == 6

\* How many root-level Python files are read: list(root.glob("*.py"))[:5]
PY_FILES_READ == 5

\* No framework found (None)
NoFramework == "None"

\* The package.json files of the model, <<state, deps>>: a file that is
\* missing, one that json.loads or dict.update rejects ("bad"), or one that
\* parses, with the names of its dependencies and devDependencies
RootManifests ==
  { <<"missing", {}>>, <<"bad", {}>>, <<"ok", {"express"}>>, <<"ok", {"vue", "typescript"}>> }

SubManifests == { <<"ok", {"@nestjs/core", "react"}>> }

\* Django>=4
T_django == <<"D","j","a","n","g","o",">","=","4">>

\* fastapi
T_fastapi == <<"f","a","s","t","a","p","i">>

\* FLASK
T_flask == <<"F","L","A","S","K">>

\* requests
T_requests == <<"r","e","q","u","e","s","t","s">>

\* import os
T_plain == <<"i","m","p","o","r","t"," ","o","s">>

\* from flask import Flask
T_app == <<"f","r","o","m"," ","f","l","a","s","k"," ","i","m","p","o","r","t"," ","F","l","a","s","k">>

\* The Python manifests of the model, <<readable, text>>
ReqUniverse ==
  { <<TRUE, T_django>>, <<TRUE, T_fastapi>>, <<TRUE, T_flask>>, <<TRUE, T_requests>>,
    <<FALSE, <<>>>> }

\* The root-level Python files of the model
PyTextUniverse == { T_plain, T_app }

Kw_flask == <<"f","l","a","s","k">>

Kw_fastapi == <<"f","a","s","t","a","p","i">>

Kw_django == <<"d","j","a","n","g","o">>

\* A variant of the frontend test that looks for React before Vue.
FrontendOfReactFirst(deps) ==
  IF "react" \in deps \/ "react-dom" \in deps THEN "React"
  ELSE IF "vue" \in deps \/ "@vue/cli-service" \in deps THEN "Vue"
  ELSE IF "svelte" \in deps THEN "Svelte"
  ELSE IF "next" \in deps THEN "Next.js"
  ELSE IF "@angular/core" \in deps THEN "Angular"
  ELSE NoFramework

\* The frontend of one manifest: the first known package among its deps
FrontendOf(deps) ==
  IF "vue" \in deps \/ "@vue/cli-service" \in deps THEN "Vue"
  ELSE IF "react" \in deps \/ "react-dom" \in deps THEN "React"
  ELSE IF "svelte" \in deps THEN "Svelte"
  ELSE IF "next" \in deps THEN "Next.js"
  ELSE IF "@angular/core" \in deps THEN "Angular"
  ELSE NoFramework

\* The backend of one manifest
JsBackendOf(deps) ==
  IF "express" \in deps THEN "Express"
  ELSE IF "@nestjs/core" \in deps THEN "NestJS"
  ELSE NoFramework

\* The language tags after one manifest that parsed
JsLanguages(langs, deps) ==
  LET withTs == IF "typescript" \in deps /\ "TypeScript" \notin Range(langs)
                THEN Append(langs, "TypeScript") ELSE langs
  IN IF "JavaScript" \notin Range(withTs) THEN Append(withTs, "JavaScript") ELSE withTs

RECURSIVE ReadAll(_)
\* The text a try block gathers from <<readable, text>> files with
\* text += read_text().lower(): the read that fails ends the loop, what was
\* gathered before it stays
ReadAll(fs) ==
  IF fs = <<>> THEN <<>>
  ELSE IF ~Head(fs)[1] THEN <<>>
  ELSE Lower(Head(fs)[2]) \o ReadAll(Tail(fs))

\* A variant that reads every root-level Python file.
FirstPyFilesAll(pys) == pys

\* list(root.glob("*.py"))[:5]
FirstPyFiles(pys) == SubSeq(pys, 1, IF Len(pys) < PY_FILES_READ THEN Len(pys) ELSE PY_FILES_READ)

\* reqs_text + py_imports
CombinedText(reqs, pys) ==
  ReadAll(reqs) \o ReadAll([i \in 1..Len(FirstPyFiles(pys)) |-> <<TRUE, FirstPyFiles(pys)[i]>>])

\* The Python backend named by the text
PyBackendOf(combined) ==
  IF Contains(combined, Kw_flask) THEN "Flask"
  ELSE IF Contains(combined, Kw_fastapi) THEN "FastAPI"
  ELSE IF Contains(combined, Kw_django) THEN "Django"
  ELSE NoFramework

\* dict.fromkeys(languages): the first occurrence of each tag, in order
RECURSIVE DedupTags(_)
DedupTags(langs) ==
  IF langs = <<>> THEN <<>>
  ELSE LET init == DedupTags(SubSeq(langs, 1, Len(langs) - 1))
       IN IF langs[Len(langs)] \in Range(init) THEN init ELSE Append(init, langs[Len(langs)])

FrameworkIdle ==
  /\ fw_manifests = <<>>
  /\ fw_reqs = <<>>
  /\ fw_pyfiles = <<>>
  /\ fw_deep_py = FALSE
  /\ fw_templates = FALSE
  /\ fw_i = 1
  /\ fw_frontend = NoFramework
  /\ fw_backend = NoFramework
  /\ fw_languages = <<>>
  /\ fw_pc = "idle"

\* _detect_framework once pkg_candidates is built
FrameworkInit ==
  /\ fw_manifests \in { <<r>> : r \in RootManifests }
                      \cup { <<r, m>> : r \in RootManifests, m \in SubManifests }
  /\ fw_reqs \in UNION { [1..n -> ReqUniverse] : n \in 0..MaxReqs }
  /\ fw_pyfiles \in UNION { [1..n -> PyTextUniverse] : n \in 0..MaxRootPy }
  /\ fw_deep_py \in (IF fw_pyfiles = <<>> THEN BOOLEAN ELSE {TRUE})
  /\ fw_templates \in BOOLEAN
  /\ fw_i = 1
  /\ fw_frontend = NoFramework
  /\ fw_backend = NoFramework
  /\ fw_languages = <<>>
  /\ fw_pc = "manifests"

fwInputs == <<fw_manifests, fw_reqs, fw_pyfiles, fw_deep_py, fw_templates>>

\* One iteration of `for pkg_path in pkg_candidates`
JsManifest ==
  /\ fw_pc = "manifests"
  /\ fw_i <= Len(fw_manifests)
  /\ LET deps == fw_manifests[fw_i][2]
     IN IF fw_manifests[fw_i][1] = "ok"
        THEN /\ fw_frontend' = IF fw_frontend = NoFramework THEN FrontendOf(deps) ELSE fw_frontend
             /\ fw_languages' = JsLanguages(fw_languages, deps)
             /\ fw_backend' = IF fw_backend = NoFramework THEN JsBackendOf(deps) ELSE fw_backend
        ELSE UNCHANGED <<fw_frontend, fw_languages, fw_backend>>
  /\ fw_i' = fw_i + 1
  /\ UNCHANGED <<fwInputs, fw_pc>>
  /\ UNCHANGED <<scanVars, dedupVars, graphVars, routeVars, storeVars, rqVars, ixVars, shVars, fsVars, wfVars, exVars>>

\* The Python backend check
PythonDetect ==
  /\ fw_pc = "manifests"
  /\ fw_i > Len(fw_manifests)
  /\ IF fw_reqs # <<>> \/ fw_pyfiles # <<>> \/ fw_deep_py
     THEN /\ fw_languages' = IF "Python" \notin Range(fw_languages)
                             THEN Append(fw_languages, "Python") ELSE fw_languages
          /\ fw_backend' = IF fw_backend = NoFramework
                           THEN PyBackendOf(CombinedText(fw_reqs, fw_pyfiles))
                           ELSE fw_backend
          /\ fw_frontend' = IF fw_templates /\ fw_frontend = NoFramework
                            THEN "Jinja2" ELSE fw_frontend
     ELSE UNCHANGED <<fw_languages, fw_backend, fw_frontend>>
  /\ fw_pc' = "finish"
  /\ UNCHANGED <<fwInputs, fw_i>>
  /\ UNCHANGED <<scanVars, dedupVars, graphVars, routeVars, storeVars, rqVars, ixVars, shVars, fsVars, wfVars, exVars>>

\* result["languages"] = list(dict.fromkeys(...)); return result
FrameworkReturn ==
  /\ fw_pc = "finish"
  /\ fw_languages' = DedupTags(fw_languages)
  /\ fw_pc' = "done"
  /\ UNCHANGED <<fwInputs, fw_i, fw_frontend, fw_backend>>
  /\ UNCHANGED <<scanVars, dedupVars, graphVars, routeVars, storeVars, rqVars, ixVars, shVars, fsVars, wfVars, exVars>>

FrameworkNext == JsManifest \/ PythonDetect \/ FrameworkReturn

FrameworkReturned == fw_pc = "done"

---------------------------------------------------------------------------
(* Claims about _detect_framework *)

\* The backend the package.json files name: that of the first manifest, in
\* processing order, that parses and names one
ManifestBackend ==
  LET naming == { i \in 1..Len(fw_manifests) :
                    fw_manifests[i][1] = "ok" /\ JsBackendOf(fw_manifests[i][2]) # NoFramework }
  IN IF naming = {} THEN NoFramework
     ELSE JsBackendOf(fw_manifests[CHOOSE i \in naming : \A k \in naming : i <= k][2])

RECURSIVE Concat(_)
\* The texts of a sequence, one after the other
Concat(texts) == IF texts = <<>> THEN <<>> ELSE Head(texts) \o Concat(Tail(texts))

\* The first framework keyword of the text, in the order flask, fastapi,
\* django
FirstKeyword(text) ==
  IF \E i \in 1..(Len(text) - 4) : SubSeq(text, i, i + 4) = Kw_flask THEN "Flask"
  ELSE IF \E i \in 1..(Len(text) - 6) : SubSeq(text, i, i + 6) = Kw_fastapi THEN "FastAPI"
  ELSE IF \E i \in 1..(Len(text) - 5) : SubSeq(text, i, i + 5) = Kw_django THEN "Django"
  ELSE NoFramework

\* The lower-cased texts of the first up-to-5 root-level Python files
FirstFivePyText ==
  Concat([i \in 1..(IF Len(fw_pyfiles) < 5 THEN Len(fw_pyfiles) ELSE 5) |-> Lower(fw_pyfiles[i])])

\* The lower-cased text of every Python manifest that can be read
ReadableManifestText ==
  Concat([i \in 1..Len(fw_reqs) |-> IF fw_reqs[i][1] THEN Lower(fw_reqs[i][2]) ELSE <<>>])

\* The lower-cased text of the Python manifests that come before the first
\* one that cannot be read
ManifestTextBeforeFailure ==
  LET failing == { i \in 1..Len(fw_reqs) : ~fw_reqs[i][1] }
      stop == IF failing = {} THEN Len(fw_reqs) + 1
              ELSE CHOOSE i \in failing : \A k \in failing : i <= k
  IN Concat([i \in 1..(stop - 1) |-> Lower(fw_reqs[i][2])])

\* The tree has no package.json, no root templates directory, and one Python
\* manifest, which names a known framework
OnlyPythonManifest ==
  /\ \A i \in 1..Len(fw_manifests) : fw_manifests[i][1] = "missing"
  /\ ~fw_templates
  /\ Len(fw_reqs) = 1
  /\ fw_reqs[1][1]
  /\ FirstKeyword(Lower(fw_reqs[1][2])) # NoFramework

---------------------------------------------------------------------------
(* search_in_files, the search endpoint, and the entry of analyze          *)

MaxSearchFiles == 3

\* len(query) < 2 in search_project
MIN_QUERY == 2

\* line.strip()[:120]
LINE_CUT == 120

\* matches[:5]
MATCHES_KEPT == 5

\* "  // TODO: fix  "
L_todo == <<" "," ","/","/"," ","T","O","D","O",":"," ","f","i","x"," "," ">>

\* "todo"
L_lower == <<"t","o","d","o">>

\* "x = 1"
L_plain == <<"x"," ","="," ","1">>

\* "TODO"
Q_TODO == <<"T","O","D","O">>

\* "Do"
Q_do == <<"D","o">>

\* "o"
Q_o == <<"o">>

\* " o "
Q_padded == <<" ","o"," ">>

\* "zz"
Q_zz == <<"z","z">>

\* A line of 129 characters whose only "TODO" lies behind the cut
L_long == [i \in 1..125 |-> "a"] \o Q_TODO

\* The empty query
Q_empty == <<>>

QueryUniverse == {Q_TODO, Q_do, Q_o, Q_padded, Q_zz, Q_empty}

\* A file whose read_text raises
Unreadable == <<<<"(", "unreadable", ")">>>>

\* The contents of the files of the model, as content.splitlines() gives them
ContentUniverse ==
  { <<>>,
    <<L_plain, L_plain>>,
    <<L_plain, L_todo>>,
    <<L_lower, L_plain, L_todo, L_lower, L_lower, L_todo, L_lower, L_lower>>,
    <<L_long, L_lower>>,
    Unreadable }

\* The discovered files, in walk order
SearchFiles == <<F_app, F_Home, F_user>>

WhiteSpace == {" ", "\t", "\n", "\r"}

RECURSIVE LStrip(_)
LStrip(s) == IF s # <<>> /\ Head(s) \in WhiteSpace THEN LStrip(Tail(s)) ELSE s

RECURSIVE RStrip(_)
RStrip(s) == IF s # <<>> /\ s[Len(s)] \in WhiteSpace THEN RStrip(SubSeq(s, 1, Len(s) - 1)) ELSE s

\* str.strip()
Strip(s) == LStrip(RStrip(s))

\* s[:n]
Cut(s, n) == SubSeq(s, 1, IF Len(s) < n THEN Len(s) ELSE n)

\* A variant that keeps every matching line.
KeptMatchesAll(matches) == matches

\* matches[:5]
KeptMatches(matches) == Cut(matches, MATCHES_KEPT)

\* The matches list of one content: <<line number, trimmed and cut line>> for
\* each line that contains the lower-cased query, in line order
MatchesOf(lines, query_lower) ==
  LET hit == SelectSeq([i \in 1..Len(lines) |-> <<i, lines[i]>>],
                       LAMBDA e : Contains(Lower(e[2]), query_lower))
  IN [k \in 1..Len(hit) |-> <<hit[k][1], Cut(Strip(hit[k][2]), LINE_CUT)>>]

\* The results list after the file <<path, content>>: <<file, count, matches>>
SearchOne(results, file, query_lower) ==
  IF file[2] = Unreadable THEN results
  ELSE LET matches == MatchesOf(file[2], query_lower)
       IN IF matches # <<>>
          THEN Append(results, <<file[1], Len(matches), KeptMatches(matches)>>)
          ELSE results

\* results.sort(key=lambda r: r["count"], reverse=True)
SortResults(results) ==
  LET keyed == [i \in 1..Len(results) |-> <<results[i][2], results[i]>>]
      sorted == StableSortDesc(keyed)
  IN [i \in 1..Len(sorted) |-> sorted[i][2]]

RequestIdle ==
  /\ rq_op = "none"
  /\ rq_root = "dir"
  /\ rq_query = <<>>
  /\ rq_files = <<>>
  /\ rq_i = 1
  /\ rq_results = <<>>
  /\ rq_scanned = FALSE
  /\ rq_outcome = "none"
  /\ rq_pc = "idle"

\* What project_path may name: a directory, a file, nothing, or a text the
\* operating system rejects (an over-long name, a NUL character, a symlink
\* loop)
RootStates == {"dir", "file", "missing", "rejected"}

\* A call arrives: at the endpoint, or at search_in_files or analyze directly
RequestInit ==
  /\ rq_op \in {"search_http", "search", "analyze"}
  /\ rq_root \in RootStates
  /\ rq_query \in (IF rq_op = "analyze" THEN {<<>>} ELSE QueryUniverse)
  /\ rq_files \in (IF rq_root = "dir" /\ rq_op # "analyze"
                   THEN UNION { { [i \in 1..n |-> <<SearchFiles[i], c[i]>>] :
                                    c \in [1..n -> ContentUniverse] } :
                                n \in 0..MaxSearchFiles }
                   ELSE {<<>>})
  /\ rq_i = 1
  /\ rq_results = <<>>
  /\ rq_scanned = FALSE
  /\ rq_outcome = "none"
  /\ rq_pc = IF rq_op = "search_http" THEN "http" ELSE "entry"

rqInputs == <<rq_op, rq_root, rq_files>>

notRequest ==
  <<scanVars, dedupVars, graphVars, routeVars, storeVars, fwVars, ixVars, shVars, fsVars, wfVars, exVars>>

\* search_project up to its call of search_in_files
HttpSearch ==
  /\ rq_pc = "http"
  /\ rq_query' = Strip(rq_query)
  /\ IF Len(rq_query') < MIN_QUERY
     THEN rq_outcome' = "error_short" /\ rq_pc' = "done"
     ELSE rq_outcome' = rq_outcome /\ rq_pc' = "entry"
  /\ UNCHANGED <<rqInputs, rq_i, rq_results, rq_scanned>>
  /\ UNCHANGED notRequest

\* The outcomes of Path(project_path).resolve(), root.exists() and
\* root.is_dir(): they raise for a text the operating system rejects
\* (ValueError, OSError, RuntimeError), or on other interpreters answer False
RootCheck(outcome) ==
  IF rq_root = "dir" THEN outcome = "none"
  ELSE IF rq_root = "rejected" THEN outcome \in {"raised", "error_dir"}
  ELSE outcome = "error_dir"

\* search_in_files down to the loop over the files
SearchEntry ==
  /\ rq_pc = "entry"
  /\ rq_op \in {"search_http", "search"}
  /\ \E outcome \in {"none", "raised", "error_dir"} :
       /\ RootCheck(outcome)
       /\ rq_outcome' = outcome
       /\ rq_scanned' = (outcome = "none")
       /\ rq_pc' = IF outcome = "none" THEN "loop" ELSE "done"
  /\ rq_query' = Lower(rq_query)
  /\ UNCHANGED <<rqInputs, rq_i, rq_results>>
  /\ UNCHANGED notRequest

\* One iteration of `for fpath in files`
SearchFile ==
  /\ rq_pc = "loop"
  /\ rq_i <= Len(rq_files)
  /\ rq_results' = SearchOne(rq_results, rq_files[rq_i], rq_query)
  /\ rq_i' = rq_i + 1
  /\ UNCHANGED <<rqInputs, rq_query, rq_scanned, rq_outcome, rq_pc>>
  /\ UNCHANGED notRequest

\* The sort and the return
SearchReturn ==
  /\ rq_pc = "loop"
  /\ rq_i > Len(rq_files)
  /\ rq_results' = SortResults(rq_results)
  /\ rq_outcome' = "ok"
  /\ rq_pc' = "done"
  /\ UNCHANGED <<rqInputs, rq_query, rq_i, rq_scanned>>
  /\ UNCHANGED notRequest

\* analyze down to its call of _detect_framework
AnalyzeEntry ==
  /\ rq_pc = "entry"
  /\ rq_op = "analyze"
  /\ \E outcome \in {"none", "raised", "error_dir"} :
       /\ RootCheck(outcome)
       /\ rq_outcome' = outcome
       /\ rq_pc' = IF outcome = "none" THEN "analyzing" ELSE "done"
  /\ UNCHANGED <<rqInputs, rq_query, rq_i, rq_results, rq_scanned>>
  /\ UNCHANGED notRequest

RequestNext == HttpSearch \/ SearchEntry \/ SearchFile \/ SearchReturn \/ AnalyzeEntry

---------------------------------------------------------------------------
(* Claims about search_in_files and the entry checks *)

SearchReturned == rq_pc = "done" /\ rq_outcome = "ok"

\* The line contains the query, letter case aside
LineHasQuery(line, query) ==
  \E i \in 1..(Len(line) - Len(query) + 1) :
    \A k \in 1..Len(query) : LowerChar(line[i + k - 1]) = LowerChar(query[k])

\* The numbers of the lines of file i that contain the query; a file that
\* cannot be read has no lines to search
MatchingLines(i) ==
  IF rq_files[i][2] = Unreadable THEN {}
  ELSE { n \in 1..Len(rq_files[i][2]) : LineHasQuery(rq_files[i][2][n], rq_query) }

\* The positions of the results for file i
ResultsFor(i) == { r \in 1..Len(rq_results) : rq_results[r][1] = rq_files[i][1] }

\* The matches of result r are the first min(count, 5) matching lines of
\* file i, in line order, each trimmed and cut to 120 characters
FirstMatchesListed(r, i) ==
  LET listed == rq_results[r][3]
      lines == rq_files[i][2]
  IN /\ Len(listed) = (IF rq_results[r][2] < 5 THEN rq_results[r][2] ELSE 5)
     /\ \A k \in 1..Len(listed) :
          /\ listed[k][1] \in MatchingLines(i)
          /\ Cardinality({ n \in MatchingLines(i) : n < listed[k][1] }) = k - 1
          /\ Len(listed[k][2]) <= 120
          /\ listed[k][2] = SubSeq(Strip(lines[listed[k][1]]), 1, Len(listed[k][2]))
          /\ Len(listed[k][2]) < 120 => listed[k][2] = Strip(lines[listed[k][1]])

\* Claim C13: search_in_files returns one result for each discovered file
\* with at least one line containing the query case-insensitively and none
\* for any other file; the count of a result is the number of matching lines,
\* its matches are the first min(count, 5) matching lines in line order,
\* trimmed and cut to at most 120 characters; the results are in order of
\* non-increasing count.
C13_SearchResults ==
  SearchReturned =>
    /\ \A i \in 1..Len(rq_files) :
         IF MatchingLines(i) = {} THEN ResultsFor(i) = {}
         ELSE /\ Cardinality(ResultsFor(i)) = 1
              /\ \A r \in ResultsFor(i) :
                   /\ rq_results[r][2] = Cardinality(MatchingLines(i))
                   /\ FirstMatchesListed(r, i)
    /\ \A r \in 1..Len(rq_results) : \E i \in 1..Len(rq_files) : r \in ResultsFor(i)
    /\ \A r \in 1..(Len(rq_results) - 1) : rq_results[r][2] >= rq_results[r + 1][2]

\* Three files searched: one without a match, one with seven matching lines
\* of which five are listed, found after one with fewer matches and sorted
\* before it; a matching line was cut to 120 characters.
C13_Witness ==
  /\ SearchReturned
  /\ Len(rq_files) = 3
  /\ Len(rq_results) = 2
  /\ rq_results[1][2] = 7
  /\ Len(rq_results[1][3]) = 5
  /\ rq_results[1][1] = rq_files[3][1]
  /\ \E k \in 1..Len(rq_results[2][3]) : Len(rq_results[2][3][k][2]) = 120

\* C14 as stated: a search whose query is shorter than two characters is
\* rejected with an error and scans no file, through the endpoint and on a
\* direct call of search_in_files alike.
C14_ShortQueryRejected ==
  (rq_op \in {"search_http", "search"} /\ Len(rq_query) < 2 /\ rq_pc # "http") =>
    /\ ~rq_scanned
    /\ rq_pc = "done" => rq_outcome \in {"error_short", "error_dir"}
    /\ rq_pc \in {"entry", "done"}

\* C15 as stated: when the root path names no directory, analyze and
\* search_in_files return the error value "Directory not found", without
\* raising, before any detection, scan or read.
C15_MissingRootIsAnError ==
  (rq_root # "dir" /\ rq_pc \notin {"http", "entry"} /\ rq_outcome # "error_short") =>
    /\ rq_pc = "done"
    /\ rq_outcome = "error_dir"
    /\ ~rq_scanned
    /\ rq_results = <<>>

---------------------------------------------------------------------------
(* The blueprint and route indexing passes of _extract_edges               *)

MaxIndexStatements == 2

\* /api/users
X_api_users == <<"/","a","p","i","/","u","s","e","r","s">>

\* /api/
X_api == <<"/","a","p","i","/">>

\* /<id>
X_id == <<"/","<","i","d",">">>

\* /users
X_users == <<"/","u","s","e","r","s">>

\* /api/*
X_api_all == <<"/","a","p","i","/","*">>

\* No url_prefix argument
NoPrefix == <<>>

\* The statements a content may hold, <<form, variable, verb, text>>:
\*   "blueprint"  bp = Blueprint(..., url_prefix='text')   (text may be missing)
\*   "register"   app.register_blueprint(bp, url_prefix='text')
\*   "route"      @var.verb('text')
\*   "call"       var.verb('text', ...)
IndexStatements ==
  { <<"blueprint", "bp", "", NoPrefix>>,
    <<"blueprint", "bp", "", X_api_users>>,
    <<"register", "bp", "", X_api>>,
    <<"route", "bp", "route", X_id>>,
    <<"route", "app", "get", X_users>>,
    <<"call", "router", "get", X_api_all>> }

IndexContents ==
  UNION { [1..n -> IndexStatements] : n \in 0..MaxIndexStatements } \cup {Unreadable}

\* The contents of main.js in the model
JsContents == { <<<<"call", "router", "get", X_api_all>>>>, <<<<"route", "bp", "route", X_id>>>>, Unreadable }

\* d[key] = value on a dict kept as <<key, value>> pairs in insertion order
DictSet(d, key, value) ==
  IF \E i \in 1..Len(d) : d[i][1] = key
  THEN [i \in 1..Len(d) |-> IF d[i][1] = key THEN <<key, value>> ELSE d[i]]
  ELSE Append(d, <<key, value>>)

\* key in d
DictHas(d, key) == \E i \in 1..Len(d) : d[i][1] = key

\* d[key]
DictGet(d, key) == d[CHOOSE i \in 1..Len(d) : d[i][1] = key][2]

\* bp_prefix_map.setdefault(rel, {})[var] = prefix, on <<rel, var, prefix>>
\* entries
PrefixSet(pm, rel, var, prefix) ==
  IF \E i \in 1..Len(pm) : pm[i][1] = rel /\ pm[i][2] = var
  THEN [i \in 1..Len(pm) |->
          IF pm[i][1] = rel /\ pm[i][2] = var THEN <<rel, var, prefix>> ELSE pm[i]]
  ELSE Append(pm, <<rel, var, prefix>>)

\* bp_prefix_map.get(rel, {}).get(var, ''), NoPrefix for ''
PrefixGet(pm, rel, var) ==
  IF \E i \in 1..Len(pm) : pm[i][1] = rel /\ pm[i][2] = var
  THEN pm[CHOOSE i \in 1..Len(pm) : pm[i][1] = rel /\ pm[i][2] = var][3]
  ELSE NoPrefix

RECURSIVE LStripSlash(_)
\* s.lstrip('/')
LStripSlash(s) == IF s # <<>> /\ Head(s) = "/" THEN LStripSlash(Tail(s)) ELSE s

\* f.suffix.lower() of a relative path
ExtOf(path) == Lower(Suffix(path[Len(path)]))

RECURSIVE TrackBlueprints(_, _, _)
\* for m in bp_def_re.finditer(content): bp_var_to_file[m.group(1)] = rel
TrackBlueprints(v2f, rel, content) ==
  IF content = <<>> THEN v2f
  ELSE TrackBlueprints(IF Head(content)[1] = "blueprint"
                       THEN DictSet(v2f, Head(content)[2], rel) ELSE v2f,
                       rel, Tail(content))

RECURSIVE TrackInlinePrefixes(_, _, _)
\* for m in bp_def_with_prefix_re.finditer(content): ...[m.group(1)] = m.group(2)
TrackInlinePrefixes(pm, rel, content) ==
  IF content = <<>> THEN pm
  ELSE TrackInlinePrefixes(IF Head(content)[1] = "blueprint" /\ Head(content)[4] # NoPrefix
                           THEN PrefixSet(pm, rel, Head(content)[2], Head(content)[4]) ELSE pm,
                           rel, Tail(content))

\* for m in bp_register_re.finditer(content): bp_registrations.append(...)
TrackRegistrations(regs, content) ==
  regs \o [i \in 1..Len(SelectSeq(content, LAMBDA st : st[1] = "register")) |->
             <<SelectSeq(content, LAMBDA st : st[1] = "register")[i][2],
               SelectSeq(content, LAMBDA st : st[1] = "register")[i][4]>>]

RECURSIVE MergeRegistrations(_, _, _)
\* The merge of the register_blueprint prefixes into the file that defines
\* the blueprint variable
MergeRegistrations(pm, regs, v2f) ==
  IF regs = <<>> THEN pm
  ELSE LET var_name == Head(regs)[1]
           prefix == Head(regs)[2]
       IN IF DictHas(v2f, var_name)
             /\ PrefixGet(pm, DictGet(v2f, var_name), var_name) = NoPrefix
          THEN MergeRegistrations(PrefixSet(pm, DictGet(v2f, var_name), var_name, prefix),
                                  Tail(regs), v2f)
          ELSE MergeRegistrations(pm, Tail(regs), v2f)

RECURSIVE RouteDecorators(_, _, _, _)
\* for m in route_def_re.finditer(content): the full path when the variable
\* has a prefix, and the raw path when it is no key yet
RouteDecorators(rm, pm, rel, content) ==
  IF content = <<>> THEN rm
  ELSE LET st == Head(content)
           prefix == PrefixGet(pm, rel, st[2])
           full_path == RStripSlash(prefix) \o <<"/">> \o LStripSlash(st[4])
           withFull == IF prefix # NoPrefix THEN DictSet(rm, full_path, rel) ELSE rm
           withRaw == IF ~DictHas(withFull, st[4]) THEN DictSet(withFull, st[4], rel) ELSE withFull
       IN RouteDecorators(IF st[1] = "route" THEN withRaw ELSE rm, pm, rel, Tail(content))

\* Whether the Express-style pattern (?:router|app)\.(get|post|...)\( finds
\* the statement; a decorator @app.get(...) holds such a call too
IsExpressCall(st) ==
  /\ st[1] \in {"route", "call"}
  /\ st[2] \in {"router", "app"}
  /\ st[3] \in {"get", "post", "put", "delete", "patch"}

RECURSIVE ExpressRoutes(_, _, _)
\* The Express-style loop: route_map[route_path] = rel
ExpressRoutes(rm, rel, content) ==
  IF content = <<>> THEN rm
  ELSE ExpressRoutes(IF IsExpressCall(Head(content)) THEN DictSet(rm, Head(content)[4], rel) ELSE rm,
                     rel, Tail(content))

\* Which entries of ix_files a pass reads
InBlueprintPass(file) == ExtOf(file[1]) = <<".","p","y">>

InRoutePass(file) == ExtOf(file[1]) \in { <<".","p","y">>, <<".","j","s">>, <<".","t","s">> }

IndexIdle ==
  /\ ix_files = <<>>
  /\ ix_i = 1
  /\ bp_var_to_file = <<>>
  /\ bp_prefix_map = <<>>
  /\ bp_registrations = <<>>
  /\ ix_pc = "idle"

\* _extract_edges before the first pass
IndexInit ==
  /\ ix_files \in { <<<<F_app, a>>, <<F_main, m>>, <<F_users, u>>>> :
                      a \in IndexContents, m \in JsContents, u \in IndexContents }
  /\ ix_i = 1
  /\ bp_var_to_file = <<>>
  /\ bp_prefix_map = <<>>
  /\ bp_registrations = <<>>
  /\ ix_pc = "blueprints"

notIndex ==
  <<scanVars, dedupVars, graphVars, storeVars, fwVars, rqVars, shVars, fsVars, wfVars, exVars>>

routeRest == <<api_calls, call_i, call_results, api_edges, api_endpoints, route_pc>>

\* One iteration of the first pass over the files
IndexBlueprints ==
  /\ ix_pc = "blueprints"
  /\ ix_i <= Len(ix_files)
  /\ LET rel == ix_files[ix_i][1]
         content == ix_files[ix_i][2]
     IN IF InBlueprintPass(ix_files[ix_i]) /\ content # Unreadable
        THEN /\ bp_var_to_file' = TrackBlueprints(bp_var_to_file, rel, content)
             /\ bp_prefix_map' = TrackInlinePrefixes(bp_prefix_map, rel, content)
             /\ bp_registrations' = TrackRegistrations(bp_registrations, content)
        ELSE UNCHANGED <<bp_var_to_file, bp_prefix_map, bp_registrations>>
  /\ ix_i' = ix_i + 1
  /\ UNCHANGED <<ix_files, ix_pc, route_map, routeRest>>
  /\ UNCHANGED notIndex

\* The merge loop over bp_registrations
IndexMerge ==
  /\ ix_pc = "blueprints"
  /\ ix_i > Len(ix_files)
  /\ bp_prefix_map' = MergeRegistrations(bp_prefix_map, bp_registrations, bp_var_to_file)
  /\ ix_i' = 1
  /\ ix_pc' = "routes"
  /\ UNCHANGED <<ix_files, bp_var_to_file, bp_registrations, route_map, routeRest>>
  /\ UNCHANGED notIndex

\* One iteration of the second pass over the files
IndexRoutes ==
  /\ ix_pc = "routes"
  /\ ix_i <= Len(ix_files)
  /\ LET rel == ix_files[ix_i][1]
         content == ix_files[ix_i][2]
     IN route_map' = IF InRoutePass(ix_files[ix_i]) /\ content # Unreadable
                     THEN ExpressRoutes(RouteDecorators(route_map, bp_prefix_map, rel, content),
                                        rel, content)
                     ELSE route_map
  /\ ix_i' = ix_i + 1
  /\ UNCHANGED <<ix_files, ix_pc, bp_var_to_file, bp_prefix_map, bp_registrations, routeRest>>
  /\ UNCHANGED notIndex

\* The route map is complete
IndexEnd ==
  /\ ix_pc = "routes"
  /\ ix_i > Len(ix_files)
  /\ ix_pc' = "done"
  /\ UNCHANGED <<ix_files, ix_i, bp_var_to_file, bp_prefix_map, bp_registrations,
                 route_map, routeRest>>
  /\ UNCHANGED notIndex

IndexNext == IndexBlueprints \/ IndexMerge \/ IndexRoutes \/ IndexEnd

---------------------------------------------------------------------------
(* Claims about files whose content cannot be read *)

\* The same files, each unreadable one with an empty content in its place
Blank(fs) ==
  [i \in 1..Len(fs) |-> IF fs[i][2] = Unreadable THEN <<fs[i][1], <<>>>> ELSE fs[i]]

\* The paths of the unreadable files of fs
UnreadablePaths(fs) == { fs[i][1] : i \in { k \in 1..Len(fs) : fs[k][2] = Unreadable } }

\* The Python files of fs, all of them readable
PythonFiles(fs) == SelectSeq(fs, InBlueprintPass)

RECURSIVE AllBlueprints(_, _)
\* bp_var_to_file after the first pass over readable files
AllBlueprints(v2f, fs) ==
  IF fs = <<>> THEN v2f
  ELSE AllBlueprints(TrackBlueprints(v2f, Head(fs)[1], Head(fs)[2]), Tail(fs))

RECURSIVE AllInlinePrefixes(_, _)
\* bp_prefix_map after the first pass over readable files
AllInlinePrefixes(pm, fs) ==
  IF fs = <<>> THEN pm
  ELSE AllInlinePrefixes(TrackInlinePrefixes(pm, Head(fs)[1], Head(fs)[2]), Tail(fs))

RECURSIVE AllRegistrations(_, _)
\* bp_registrations after the first pass over readable files
AllRegistrations(regs, fs) ==
  IF fs = <<>> THEN regs
  ELSE AllRegistrations(TrackRegistrations(regs, Head(fs)[2]), Tail(fs))

\* bp_prefix_map after the merge, for readable files
PrefixMapOf(fs) ==
  MergeRegistrations(AllInlinePrefixes(<<>>, PythonFiles(fs)),
                     AllRegistrations(<<>>, PythonFiles(fs)),
                     AllBlueprints(<<>>, PythonFiles(fs)))

RECURSIVE AllRoutes(_, _, _)
\* route_map after the second pass over readable files
AllRoutes(rm, pm, fs) ==
  IF fs = <<>> THEN rm
  ELSE AllRoutes(IF InRoutePass(Head(fs))
                 THEN ExpressRoutes(RouteDecorators(rm, pm, Head(fs)[1], Head(fs)[2]),
                                    Head(fs)[1], Head(fs)[2])
                 ELSE rm,
                 pm, Tail(fs))

\* route_map of readable files
RouteMapOf(fs) == AllRoutes(<<>>, PrefixMapOf(fs), fs)

RECURSIVE SearchAll(_, _, _)
\* The results list after the loop over readable files
SearchAll(results, fs, query_lower) ==
  IF fs = <<>> THEN results
  ELSE SearchAll(SearchOne(results, Head(fs), query_lower), Tail(fs), query_lower)

\* Classification treats an unreadable file as one without a route decorator
ClassifiedAsIfAbsent ==
  pc \notin {"idle", "categorize"} =>
    buckets = CategorizeFiles(EmptyBuckets, files, {}, route_files \ unreadable)

\* Extraction gives an unreadable file no outgoing edge and leaves the edges
\* of the other files as they are without its references
ExtractedAsIfAbsent ==
  pc \notin {"idle", "categorize", "extract"} =>
    /\ \A k \in 1..Len(edge_list) : edge_list[k][1] \notin unreadable
    /\ edge_list = DedupAll(<<>>, Candidates(files, { r \in refs : r[1] \notin unreadable }, {}))

\* Indexing takes no route and no prefix from an unreadable file and indexes
\* the other files as they are with its content empty
IndexedAsIfAbsent ==
  ix_pc = "done" =>
    /\ \A k \in 1..Len(route_map) : route_map[k][2] \notin UnreadablePaths(ix_files)
    /\ \A k \in 1..Len(bp_prefix_map) : bp_prefix_map[k][1] \notin UnreadablePaths(ix_files)
    /\ \A k \in 1..Len(bp_var_to_file) : bp_var_to_file[k][2] \notin UnreadablePaths(ix_files)
    /\ bp_prefix_map = PrefixMapOf(Blank(ix_files))
    /\ route_map = RouteMapOf(Blank(ix_files))

\* Search lists no unreadable file and lists the others as they are with its
\* content empty
SearchedAsIfAbsent ==
  SearchReturned =>
    /\ \A k \in 1..Len(rq_results) : rq_results[k][1] \notin UnreadablePaths(rq_files)
    /\ rq_results = SortResults(SearchAll(<<>>, Blank(rq_files), rq_query))

---------------------------------------------------------------------------
(* Calls of analyze and search_in_files on the shared instance             *)

MaxSharedCalls == 2

MaxSharedFiles == 2

Callers == 1..MaxSharedCalls

\* The files of the trees the callers analyze
SharedUniverse == {F_Home, F_users, F_app}

\* The arguments of an analyze call together with the tree they name
AnalyzeInputs ==
  { [op |-> "analyze", files |-> fs, routes |-> rt, refs |-> rf, query |-> <<>>] :
      fs \in { s \in UNION { [1..n -> SharedUniverse] : n \in 1..MaxSharedFiles } : IsWalkOrder(s) },
      rt \in SUBSET {F_app},
      rf \in SUBSET { r \in Range(RefUniverse) : r[1] \in SharedUniverse /\ r[2] \in SharedUniverse } }

\* The arguments of a search_in_files call together with the tree they name
SearchInputs ==
  { [op |-> "search", files |-> <<<<F_app, c>>>>, routes |-> {}, refs |-> {}, query |-> q] :
      c \in { <<L_plain, L_todo>>, <<L_lower, L_plain, L_todo>> }, q \in {L_lower, <<"o">>} }

\* The calls whose tree holds the files they name and nothing else
SharedInputs ==
  { in \in AnalyzeInputs : in.routes \subseteq Range(in.files)
                           /\ \A r \in in.refs : r[1] \in Range(in.files) /\ r[2] \in Range(in.files) }
  \cup SearchInputs

\* The local variables of an activation at its entry
EmptyFrame ==
  [buckets |-> EmptyBuckets, edge_list |-> <<>>, nodes |-> <<>>, edges |-> <<>>,
   results |-> <<>>, i |-> 1]

NoResult == <<"none">>

\* A variant in which the locals of every call are attributes of the instance.
FrameOnInstance(c) == 1

\* Where the locals of call c live: in the activation of the call (the
\* instance has no attribute and the module-level tables are only read)
FrameOf(c) == c

\* _generate_graph as a whole
GenerateGraph(bk, el) ==
  LET groups == [c \in Range(Columns) |-> GroupFiles(<<>>, bk[c])]
      deg == ComputeDegree(el)
      sortedFiles == [c \in Range(Columns) |->
                        [i \in 1..Len(groups[c]) |->
                           <<groups[c][i][1], SortFiles(groups[c][i][2], deg)>>]]
      sc == [c \in Range(Columns) |-> CenterOut(SortGroups(sortedFiles[c], deg))]
      placed == LayoutNodes(Columns, sc, 0, 0)
      heights == [c \in Range(Columns) |-> ColHeight(sc[c])]
  IN [nodes |-> [i \in 1..Len(placed) |-> CenterNode(placed[i], heights)],
      edges |-> BuildEdges(el, NodeIdMap(placed))]

SharedIdle ==
  /\ sh_input = <<>>
  /\ sh_pc = <<>>
  /\ sh_frame = <<>>
  /\ sh_result = <<>>
  /\ sh_overlap = <<>>

\* Every caller is about to call the instance
SharedInit ==
  /\ sh_input \in [Callers -> SharedInputs]
  /\ sh_pc = [c \in Callers |-> "entry"]
  /\ sh_frame = [c \in Callers |-> EmptyFrame]
  /\ sh_result = [c \in Callers |-> NoResult]
  /\ sh_overlap = [c \in Callers |-> FALSE]

notShared ==
  <<scanVars, dedupVars, graphVars, routeVars, storeVars, fwVars, rqVars, ixVars, fsVars, wfVars, exVars>>

\* Whether another call is between its entry and its return
OthersRunning(c) == \E d \in Callers \ {c} : sh_pc[d] \notin {"entry", "done"}

\* The bookkeeping every step of call c shares
StepOf(c, next) ==
  /\ sh_pc' = [sh_pc EXCEPT ![c] = next]
  /\ sh_overlap' = [sh_overlap EXCEPT ![c] = @ \/ OthersRunning(c)]
  /\ UNCHANGED sh_input
  /\ UNCHANGED notShared

\* The call begins: its locals are created
CallEntry ==
  \E c \in Callers :
      /\ sh_pc[c] = "entry"
      /\ sh_frame' = [sh_frame EXCEPT ![FrameOf(c)] = EmptyFrame]
      /\ StepOf(c, IF sh_input[c].op = "analyze" THEN "categorize" ELSE "loop")
      /\ UNCHANGED sh_result

\* buckets = self._categorize_files(root, files)
CallCategorize ==
  \E c \in Callers :
      /\ sh_pc[c] = "categorize"
      /\ sh_frame' = [sh_frame EXCEPT ![FrameOf(c)].buckets =
                        CategorizeFiles(@, sh_input[c].files, {}, sh_input[c].routes)]
      /\ StepOf(c, "extract")
      /\ UNCHANGED sh_result

\* edge_list, api_endpoints = self._extract_edges(root, files)
CallExtract ==
  \E c \in Callers :
      /\ sh_pc[c] = "extract"
      /\ sh_frame' = [sh_frame EXCEPT ![FrameOf(c)].edge_list =
                        DedupAll(@, Candidates(sh_input[c].files, sh_input[c].refs, {}))]
      /\ StepOf(c, "graph")
      /\ UNCHANGED sh_result

\* nodes, edges = self._generate_graph(root, buckets, edge_list, api_endpoints)
CallGraph ==
  \E c \in Callers :
      /\ sh_pc[c] = "graph"
      /\ LET g == GenerateGraph(sh_frame[FrameOf(c)].buckets, sh_frame[FrameOf(c)].edge_list)
         IN sh_frame' = [sh_frame EXCEPT ![FrameOf(c)].nodes = g.nodes,
                                         ![FrameOf(c)].edges = g.edges]
      /\ StepOf(c, "return")
      /\ UNCHANGED sh_result

\* One iteration of the loop of search_in_files, and its sort
CallSearch ==
  \E c \in Callers :
      /\ sh_pc[c] = "loop"
      /\ LET fr == sh_frame[FrameOf(c)]
         IN IF fr.i <= Len(sh_input[c].files)
            THEN /\ sh_frame' = [sh_frame EXCEPT
                                   ![FrameOf(c)].results =
                                      SearchOne(@, sh_input[c].files[fr.i], Lower(sh_input[c].query)),
                                   ![FrameOf(c)].i = @ + 1]
                 /\ StepOf(c, "loop")
            ELSE /\ sh_frame' = [sh_frame EXCEPT ![FrameOf(c)].results = SortResults(@)]
                 /\ StepOf(c, "return")
      /\ UNCHANGED sh_result

\* The result of a call, from its locals
ResultOf(op, fr) ==
  IF op = "analyze"
  THEN [buckets |-> fr.buckets, nodes |-> fr.nodes, edges |-> fr.edges]
  ELSE [results |-> fr.results]

\* The return statement
CallReturn ==
  \E c \in Callers :
      /\ sh_pc[c] = "return"
      /\ sh_result' = [sh_result EXCEPT ![c] = ResultOf(sh_input[c].op, sh_frame[FrameOf(c)])]
      /\ StepOf(c, "done")
      /\ UNCHANGED sh_frame

SharedNext ==
  CallEntry \/ CallCategorize \/ CallExtract \/ CallGraph \/ CallSearch \/ CallReturn

---------------------------------------------------------------------------
(* Claims about calls on the shared instance *)

\* What the call returns when no other call runs
AloneResult(in) ==
  IF in.op = "analyze"
  THEN LET bk == CategorizeFiles(EmptyBuckets, in.files, {}, in.routes)
           el == DedupAll(<<>>, Candidates(in.files, in.refs, {}))
       IN [buckets |-> bk, nodes |-> GenerateGraph(bk, el).nodes,
           edges |-> GenerateGraph(bk, el).edges]
  ELSE [results |-> SortResults(SearchAll(<<>>, in.files, Lower(in.query)))]

\* Claim C17: the analyzer keeps no state between or across calls: in any
\* sequence or interleaving of analyze and search calls on the shared
\* instance over unchanged trees, each call returns the result it returns when
\* run alone (same layer assignments, edges and layout).
C17_CallsDoNotInterfere ==
  \A c \in Callers : sh_pc[c] = "done" => sh_result[c] = AloneResult(sh_input[c])

\* Two calls on different trees have both returned, and each of them took
\* steps while the other was running
C17_Witness ==
  /\ \A c \in Callers : sh_pc[c] = "done" /\ sh_overlap[c]
  /\ sh_input[1] # sh_input[2]
  /\ sh_input[1].op = "analyze"
  /\ sh_result[1].edges # <<>>

---------------------------------------------------------------------------
(* File operations: FileService.write_artifact, and the read-file and      *)
(* download-zip endpoints                                                  *)

MaxWrites == 2

MaxZipFiles == 2

\* MAX_SIZE = 200 * 1024 in read_file
READ_MAX_SIZE == 204800

\* 5 * 1024 * 1024 in download_zip
ZIP_MAX_SIZE == 5242880

\* Config.PROJECT_ROOT, resolved: /srv/proj
PROJECT_ROOT == <<<<"s","r","v">>, <<"p","r","o","j">>>>

\* Config.ARTIFACTS_DIR
ARTIFACTS_DIR == <<"d","o","c","s">>

\* ".md"
MdSuffix == <<".","m","d">>

\* a.md
N_a == <<"a",".","m","d">>

\* ../up.md
N_up == <<".",".","/","u","p",".","m","d">>

\* ../../out.md
N_out == <<".",".","/",".",".","/","o","u","t",".","m","d">>

\* /srv/proj/abs.md
N_abs_in == <<"/","s","r","v","/","p","r","o","j","/","a","b","s",".","m","d">>

\* /srv/out.md
N_abs_out == <<"/","s","r","v","/","o","u","t",".","m","d">>

\* sub/x.md
N_sub == <<"s","u","b","/","x",".","m","d">>

\* x.txt
N_txt == <<"x",".","t","x","t">>

\* a/../../b.md
N_deep == <<"a","/",".",".","/",".",".","/","b",".","m","d">>

\* ../docs/a.md
N_back == <<".",".","/","d","o","c","s","/","a",".","m","d">>

\* The filename arguments of write_artifact in the model
ArtifactNames == {N_a, N_up, N_out, N_abs_in, N_abs_out, N_sub, N_txt, N_deep, N_back}

\* Directories that may exist under the artifacts directory before the call
OptionalDirs == {<<<<"s","r","v">>, <<"p","r","o","j">>, <<"d","o","c","s">>>>, <<<<"s","r","v">>, <<"p","r","o","j">>, <<"d","o","c","s">>, <<"s","u","b">>>>}

\* The directories every run starts with: /, /srv, /srv/proj, /srv/proj2
BaseDirs == {<<>>, <<<<"s","r","v">>>>, <<<<"s","r","v">>, <<"p","r","o","j">>>>, <<<<"s","r","v">>, <<"p","r","o","j","2">>>>}

\* /srv/proj/app.py
D_app == <<<<"s","r","v">>, <<"p","r","o","j">>, <<"a","p","p",".","p","y">>>>

\* /srv/proj/docs/a.md
D_doc == <<<<"s","r","v">>, <<"p","r","o","j">>, <<"d","o","c","s">>, <<"a",".","m","d">>>>

\* /srv/proj2/secret.md
D_sibling == <<<<"s","r","v">>, <<"p","r","o","j","2">>, <<"s","e","c","r","e","t",".","m","d">>>>

\* /srv/secret.md
D_above == <<<<"s","r","v">>, <<"s","e","c","r","e","t",".","m","d">>>>

\* The files on disk when the endpoints are called
FetchDisk == {D_app, D_doc, D_sibling, D_above}

\* The directories on disk when the endpoints are called
FetchDirs == BaseDirs \cup {<<<<"s","r","v">>, <<"p","r","o","j">>, <<"d","o","c","s">>>>}

\* "/srv/proj"
P_proj == <<"/","s","r","v","/","p","r","o","j">>

\* " /srv/proj/"
P_proj_slash == <<" ","/","s","r","v","/","p","r","o","j","/">>

\* "/srv"
P_srv == <<"/","s","r","v">>

\* ""
P_none == <<>>

\* The project paths of the requests
ProjectPaths == {P_proj, P_proj_slash, P_srv, P_none}

\* "app.py"
E_app == <<"a","p","p",".","p","y">>

\* "app.py "
E_app_space == <<"a","p","p",".","p","y"," ">>

\* "../proj2/secret.md"
E_sibling == <<".",".","/","p","r","o","j","2","/","s","e","c","r","e","t",".","m","d">>

\* "../secret.md"
E_above == <<".",".","/","s","e","c","r","e","t",".","m","d">>

\* "/srv/secret.md"
E_abs == <<"/","s","r","v","/","s","e","c","r","e","t",".","m","d">>

\* "docs/../app.py"
E_back == <<"d","o","c","s","/",".",".","/","a","p","p",".","p","y">>

\* "missing.py"
E_missing == <<"m","i","s","s","i","n","g",".","p","y">>

\* "docs/a.md"
E_doc == <<"d","o","c","s","/","a",".","m","d">>

\* The file texts of the requests
FileTexts == {E_app, E_app_space, E_sibling, E_above, E_abs, E_back, E_missing, E_doc}

\* The sizes app.py may have: small, above the read limit, above the zip limit
AppSizes == {1, READ_MAX_SIZE + 1, ZIP_MAX_SIZE + 1}

\* Whether the path text is absolute
IsAbsolute(text) == text # <<>> /\ Head(text) = "/"

\* base / text, as pathlib joins them: an absolute text replaces the base
JoinPath(base, text) == IF IsAbsolute(text) THEN SplitSlash(text) ELSE base \o SplitSlash(text)

RECURSIVE ResolveFrom(_, _)
\* Path.resolve() on an absolute path without symbolic links: ".." steps to
\* the parent, and the parent of / is /
ResolveFrom(done, parts) ==
  IF parts = <<>> THEN done
  ELSE IF Head(parts) = <<".", ".">>
       THEN ResolveFrom(IF done = <<>> THEN <<>> ELSE SubSeq(done, 1, Len(done) - 1), Tail(parts))
       ELSE ResolveFrom(Append(done, Head(parts)), Tail(parts))

ResolveAbs(parts) == ResolveFrom(<<>>, parts)

\* str(path)
PathText(parts) == <<"/">> \o JoinSlash(parts)

\* Whether path.relative_to(root) returns
IsRelativeTo(path, root) == Len(path) >= Len(root) /\ SubSeq(path, 1, Len(root)) = root

\* The confinement test of write_artifact: resolve().relative_to(project_root)
Confined(path, root) == IsRelativeTo(path, root)

\* A directory the operating system does not find
Missing == <<<<"(", "missing", ")">>>>

RECURSIVE WalkDirs(_, _, _)
\* The directory the operating system reaches through the directory
\* components of a path; every named component has to exist
WalkDirs(cur, parts, dirs) ==
  IF parts = <<>> THEN cur
  ELSE IF Head(parts) = <<".", ".">>
       THEN WalkDirs(IF cur = <<>> THEN <<>> ELSE SubSeq(cur, 1, Len(cur) - 1), Tail(parts), dirs)
       ELSE IF Append(cur, Head(parts)) \in dirs
            THEN WalkDirs(Append(cur, Head(parts)), Tail(parts), dirs)
            ELSE Missing

\* The file open(path, 'w') creates or truncates, Missing when it raises
OpenForWrite(parts, dirs) ==
  IF parts = <<>> THEN Missing
  ELSE LET dir == WalkDirs(<<>>, SubSeq(parts, 1, Len(parts) - 1), dirs)
           name == parts[Len(parts)]
       IN IF dir = Missing \/ name = <<".", ".">> \/ Append(dir, name) \in dirs THEN Missing
          ELSE Append(dir, name)

\* The directory and its ancestors
WithParents(dir) == { SubSeq(dir, 1, n) : n \in 0..Len(dir) }

\* self.project_root / Config.ARTIFACTS_DIR
ArtifactsDir == Append(PROJECT_ROOT, ARTIFACTS_DIR)

\* The size of a file on disk
SizeOf(path) == IF path = D_app THEN fs_size ELSE 1

FilesIdle ==
  /\ fs_op = "none"
  /\ fs_dirs = {}
  /\ fs_disk = {}
  /\ fs_size = 1
  /\ fs_root = <<>>
  /\ fs_names = <<>>
  /\ fs_i = 1
  /\ fs_written = {}
  /\ fs_sent = {}
  /\ fs_calls = 0
  /\ fs_outcome = "none"
  /\ fs_pc = "idle"

notFiles ==
  <<scanVars, dedupVars, graphVars, routeVars, storeVars, fwVars, rqVars, ixVars, shVars, wfVars, exVars>>

\* The file service before a call of write_artifact
ArtifactInit ==
  /\ fs_op = "none"
  /\ fs_dirs \in { BaseDirs \cup opt : opt \in { d \in SUBSET OptionalDirs :
                       \A x \in d : WithParents(x) \subseteq BaseDirs \cup d } }
  /\ fs_disk = {}
  /\ fs_size = 1
  /\ fs_root = PathText(PROJECT_ROOT)
  /\ fs_names = <<>>
  /\ fs_i = 1
  /\ fs_written = {}
  /\ fs_sent = {}
  /\ fs_calls = 0
  /\ fs_outcome = "none"
  /\ fs_pc = "ready"

\* file_service.write_artifact(filename, content) is called
WriteArtifactCall ==
  /\ fs_pc \in {"ready", "done"}
  /\ fs_calls < MaxWrites
  /\ \E filename \in ArtifactNames : fs_names' = <<filename>>
  /\ fs_op' = "write_artifact"
  /\ fs_calls' = fs_calls + 1
  /\ fs_outcome' = "none"
  /\ fs_pc' = "suffix"
  /\ UNCHANGED <<fs_dirs, fs_disk, fs_size, fs_root, fs_i, fs_written, fs_sent>>
  /\ UNCHANGED notFiles

\* if not filename.endswith('.md'): raise FileSecurityError
CheckSuffix ==
  /\ fs_pc = "suffix"
  /\ IF EndsWith(fs_names[1], MdSuffix)
     THEN fs_pc' = "mkdir" /\ fs_outcome' = fs_outcome
     ELSE fs_pc' = "done" /\ fs_outcome' = "security_error"
  /\ UNCHANGED <<fs_op, fs_dirs, fs_disk, fs_size, fs_root, fs_names, fs_i, fs_written, fs_sent,
                 fs_calls>>
  /\ UNCHANGED notFiles

\* artifacts_dir.mkdir(parents=True, exist_ok=True)
MakeArtifactsDir ==
  /\ fs_pc = "mkdir"
  /\ fs_dirs' = fs_dirs \cup WithParents(ArtifactsDir)
  /\ fs_pc' = "confine"
  /\ UNCHANGED <<fs_op, fs_disk, fs_size, fs_root, fs_names, fs_i, fs_written, fs_sent, fs_calls,
                 fs_outcome>>
  /\ UNCHANGED notFiles

\* file_path.resolve().relative_to(self.project_root), or FileSecurityError
ConfineToRoot ==
  /\ fs_pc = "confine"
  /\ IF Confined(ResolveAbs(JoinPath(ArtifactsDir, fs_names[1])), PROJECT_ROOT)
     THEN fs_pc' = "write" /\ fs_outcome' = fs_outcome
     ELSE fs_pc' = "done" /\ fs_outcome' = "security_error"
  /\ UNCHANGED <<fs_op, fs_dirs, fs_disk, fs_size, fs_root, fs_names, fs_i, fs_written, fs_sent,
                 fs_calls>>
  /\ UNCHANGED notFiles

\* file_path.write_text(content, encoding='utf-8') and the return
WriteText ==
  /\ fs_pc = "write"
  /\ LET opened == OpenForWrite(JoinPath(ArtifactsDir, fs_names[1]), fs_dirs)
     IN IF opened = Missing
        THEN /\ fs_outcome' = "os_error"
             /\ UNCHANGED <<fs_disk, fs_written>>
        ELSE /\ fs_outcome' = "ok"
             /\ fs_disk' = fs_disk \cup {opened}
             /\ fs_written' = fs_written \cup {opened}
  /\ fs_pc' = "done"
  /\ UNCHANGED <<fs_op, fs_dirs, fs_size, fs_root, fs_names, fs_i, fs_sent, fs_calls>>
  /\ UNCHANGED notFiles

ArtifactNext == WriteArtifactCall \/ CheckSuffix \/ MakeArtifactsDir \/ ConfineToRoot \/ WriteText

\* The server before a request to read-file or download-zip
FetchInit ==
  /\ fs_op = "none"
  /\ fs_dirs = FetchDirs
  /\ fs_disk = FetchDisk
  /\ fs_size \in AppSizes
  /\ fs_root = <<>>
  /\ fs_names = <<>>
  /\ fs_i = 1
  /\ fs_written = {}
  /\ fs_sent = {}
  /\ fs_calls = 0
  /\ fs_outcome = "none"
  /\ fs_pc = "ready"

\* A request arrives at read_file: project_path and file_rel, stripped
ReadFileCall ==
  /\ fs_pc = "ready"
  /\ \E path \in ProjectPaths, file \in FileTexts \cup {<<>>} :
       /\ fs_root' = Strip(path)
       /\ fs_names' = <<Strip(file)>>
  /\ fs_op' = "read_file"
  /\ fs_calls' = fs_calls + 1
  /\ fs_pc' = "check"
  /\ UNCHANGED <<fs_dirs, fs_disk, fs_size, fs_i, fs_written, fs_sent, fs_outcome>>
  /\ UNCHANGED notFiles

\* The project directory of the request, resolved
ResolvedRoot == ResolveAbs(JoinPath(<<>>, fs_root))

\* (root / file_rel).resolve()
TargetOf(file_rel) == ResolveAbs(JoinPath(ResolvedRoot, file_rel))

\* The guard of both endpoints: str(target).startswith(str(root))
UnderRoot(target, root) == StartsWith(PathText(target), PathText(root))

\* read_file from its argument check to its response
ReadFileCheck ==
  /\ fs_pc = "check"
  /\ fs_op = "read_file"
  /\ LET target == TargetOf(fs_names[1])
     IN IF fs_root = <<>> \/ fs_names[1] = <<>>
        THEN fs_outcome' = "400" /\ fs_sent' = fs_sent
        ELSE IF ~UnderRoot(target, ResolvedRoot)
        THEN fs_outcome' = "400" /\ fs_sent' = fs_sent
        ELSE IF target \notin fs_disk
        THEN fs_outcome' = "404" /\ fs_sent' = fs_sent
        ELSE IF SizeOf(target) > READ_MAX_SIZE
        THEN fs_outcome' = "too_large" /\ fs_sent' = fs_sent
        ELSE fs_outcome' = "ok" /\ fs_sent' = fs_sent \cup {target}
  /\ fs_pc' = "done"
  /\ UNCHANGED <<fs_op, fs_dirs, fs_disk, fs_size, fs_root, fs_names, fs_i, fs_written, fs_calls>>
  /\ UNCHANGED notFiles

\* A request arrives at download_zip: project_path stripped, files as given
ZipCall ==
  /\ fs_pc = "ready"
  /\ \E path \in ProjectPaths :
       fs_root' = Strip(path)
  /\ fs_names' \in UNION { [1..n -> FileTexts] : n \in 0..MaxZipFiles }
  /\ fs_op' = "download_zip"
  /\ fs_calls' = fs_calls + 1
  /\ fs_pc' = "check"
  /\ UNCHANGED <<fs_dirs, fs_disk, fs_size, fs_i, fs_written, fs_sent, fs_outcome>>
  /\ UNCHANGED notFiles

\* if not project_path or not files: 400
ZipCheck ==
  /\ fs_pc = "check"
  /\ fs_op = "download_zip"
  /\ IF fs_root = <<>> \/ fs_names = <<>>
     THEN fs_outcome' = "400" /\ fs_pc' = "done"
     ELSE fs_outcome' = fs_outcome /\ fs_pc' = "loop"
  /\ UNCHANGED <<fs_op, fs_dirs, fs_disk, fs_size, fs_root, fs_names, fs_i, fs_written, fs_sent,
                 fs_calls>>
  /\ UNCHANGED notFiles

\* One iteration of `for file_rel in files`
ZipFile ==
  /\ fs_pc = "loop"
  /\ fs_i <= Len(fs_names)
  /\ LET target == TargetOf(fs_names[fs_i])
     IN fs_sent' = IF /\ UnderRoot(target, ResolvedRoot)
                      /\ target \in fs_disk
                      /\ ~(SizeOf(target) > ZIP_MAX_SIZE)
                   THEN fs_sent \cup {target}
                   ELSE fs_sent
  /\ fs_i' = fs_i + 1
  /\ UNCHANGED <<fs_op, fs_dirs, fs_disk, fs_size, fs_root, fs_names, fs_written, fs_calls,
                 fs_outcome, fs_pc>>
  /\ UNCHANGED notFiles

\* The response of download_zip: the archive, or 400 when nothing was added
ZipReturn ==
  /\ fs_pc = "loop"
  /\ fs_i > Len(fs_names)
  /\ fs_outcome' = IF fs_sent = {} THEN "400" ELSE "ok"
  /\ fs_pc' = "done"
  /\ UNCHANGED <<fs_op, fs_dirs, fs_disk, fs_size, fs_root, fs_names, fs_i, fs_written, fs_sent,
                 fs_calls>>
  /\ UNCHANGED notFiles

FetchNext == ReadFileCall \/ ReadFileCheck \/ ZipCall \/ ZipCheck \/ ZipFile \/ ZipReturn

---------------------------------------------------------------------------
(* Claims about the file operations *)

\* The call of write_artifact has ended
ArtifactCallEnded == fs_op = "write_artifact" /\ fs_pc = "done"

\* The filename ends in .md and resolves to a location inside the artifacts
\* directory
IsArtifactName(filename) ==
  /\ EndsWith(filename, MdSuffix)
  /\ IsRelativeTo(ResolveAbs(JoinPath(ArtifactsDir, filename)), ArtifactsDir)
  /\ ResolveAbs(JoinPath(ArtifactsDir, filename)) # ArtifactsDir

\* Claim C18: write_artifact only ever writes a file whose name ends in .md
\* and whose resolved location is inside the artifacts directory under the
\* project root; for any other filename (names with '..' or path separators
\* included) it raises FileSecurityError and writes nothing.
C18_WritesOnlyArtifacts ==
  /\ \A p \in fs_written : EndsWith(p[Len(p)], MdSuffix) /\ IsRelativeTo(p, ArtifactsDir)
  /\ ArtifactCallEnded /\ ~IsArtifactName(fs_names[1]) => fs_outcome = "security_error"

\* Claim C19: the read-file and download-zip endpoints never return the
\* content of a file whose resolved path lies outside the resolved project
\* directory of the request ('..' segments, absolute paths and a sibling
\* directory whose name extends the project directory's name included).
C19_NoContentFromOutsideTheProject ==
  \A p \in fs_sent : IsRelativeTo(p, ResolvedRoot)

---------------------------------------------------------------------------
(* WorkflowService: the stages of the workflow                             *)

MaxNodes == 2

\* Stage
Stages == {"planning", "publishing", "logic", "backend", "complete"}

\* NodeStatus
Statuses == {"pending", "in_progress", "in_review", "completed", "failed"}

\* The values of WorkflowNode.type
NodeTypes == {"publishing", "logic", "backend"}

\* stage_order in _check_stage_transition
StageOrder == <<"publishing", "logic", "backend", "complete">>

\* WorkflowService.STAGE_REQUIREMENTS
STAGE_REQUIREMENTS ==
  [s \in NodeTypes |-> IF s = "publishing" THEN "feature_list.md"
                       ELSE IF s = "logic" THEN "ui-contract.md"
                       ELSE "logic-contract.md"]

\* The artifact _check_and_generate_artifacts writes for a node type
GeneratedArtifact ==
  [ty \in NodeTypes |-> IF ty = "publishing" THEN "ui-contract.md"
                        ELSE IF ty = "logic" THEN "logic-contract.md"
                        ELSE "api-contract.md"]

\* The nodes of a plan the AI service returns: each pending, with or without
\* target_files
Plans ==
  UNION { [1..n -> [type : NodeTypes, status : {"pending"}, files : BOOLEAN]] : n \in 0..MaxNodes }

\* The node ids a caller may name: those of the plan and one that is unknown
NodeIds == 1..(MaxNodes + 1)

\* all(n.data.get("status") == "completed" for n in nodes of the type)
AllCompleted(ns, ty) ==
  \A i \in 1..Len(ns) : ns[i].type = ty => ns[i].status = "completed"

HasNodes(ns, ty) == \E i \in 1..Len(ns) : ns[i].type = ty

\* _check_stage_transition: the stage it leaves in state.current_stage
CheckStageTransition(stage, ns) ==
  IF stage \in NodeTypes /\ AllCompleted(ns, stage) /\ HasNodes(ns, stage)
  THEN StageOrder[(CHOOSE k \in 1..Len(StageOrder) : StageOrder[k] = stage) + 1]
  ELSE stage

\* node.data["status"] = status.value
SetStatus(ns, id, status) == [ns EXCEPT ![id].status = status]

\* _check_and_generate_artifacts: the keys of state.artifacts after it
CheckAndGenerate(artifacts, ns, ty) ==
  IF AllCompleted(ns, ty) THEN artifacts \cup {GeneratedArtifact[ty]} ELSE artifacts

\* The statuses after the loop of scan_project_files over the nodes, `found`
\* being the nodes all of whose target files exist
Scanned(ns, found) ==
  [i \in 1..Len(ns) |->
     IF ns[i].files /\ i \in found /\ ns[i].status \in {"pending", "in_progress"}
     THEN [ns[i] EXCEPT !.status = "completed"]
     ELSE ns[i]]

WorkflowIdle ==
  /\ wf_loaded = FALSE
  /\ wf_stage = "planning"
  /\ wf_nodes = <<>>
  /\ wf_artifacts = {}
  /\ wf_last = "none"

\* workflow_service = WorkflowService(), no state file on disk
WorkflowInit ==
  /\ wf_loaded = FALSE
  /\ wf_stage = "planning"
  /\ wf_nodes = <<>>
  /\ wf_artifacts = {}
  /\ wf_last = "created"

notWorkflow ==
  <<scanVars, dedupVars, graphVars, routeVars, storeVars, fwVars, rqVars, ixVars, shVars, fsVars,
    exVars>>

\* initialize_project / initialize_project_with_requirements: the AI service
\* returns a plan, returns an error, or raises
InitializeProject ==
  /\ \E outcome \in {"plan", "error", "raised"} :
       IF outcome = "plan"
       THEN /\ wf_loaded' = TRUE
            /\ wf_stage' = "publishing"
            /\ wf_nodes' \in Plans
            /\ wf_artifacts' = {"overview.md", "feature_list.md"}
       ELSE UNCHANGED <<wf_loaded, wf_stage, wf_nodes, wf_artifacts>>
  /\ wf_last' = "initialize_project"
  /\ UNCHANGED notWorkflow

\* update_node_status(node_id, status)
UpdateNodeStatus ==
  /\ \E id \in NodeIds, status \in Statuses :
       IF wf_loaded /\ id \in 1..Len(wf_nodes)
       THEN /\ wf_nodes' = SetStatus(wf_nodes, id, status)
            /\ wf_stage' = CheckStageTransition(wf_stage, wf_nodes')
       ELSE UNCHANGED <<wf_nodes, wf_stage>>
  /\ wf_last' = "update_node_status"
  /\ UNCHANGED <<wf_loaded, wf_artifacts>>
  /\ UNCHANGED notWorkflow

\* generate_prompt(node_id): the node becomes in_progress, then the AI
\* service writes the prompt or raises
GeneratePrompt ==
  /\ \E id \in NodeIds :
       IF wf_loaded /\ id \in 1..Len(wf_nodes)
       THEN /\ wf_nodes' = SetStatus(wf_nodes, id, "in_progress")
            /\ wf_stage' = CheckStageTransition(wf_stage, wf_nodes')
       ELSE UNCHANGED <<wf_nodes, wf_stage>>
  /\ wf_last' = "generate_prompt"
  /\ UNCHANGED <<wf_loaded, wf_artifacts>>
  /\ UNCHANGED notWorkflow

\* execute_review(node_id): the node becomes in_review; the review passes,
\* fails or raises; after a pass the artifact of the node's type is generated
\* (the AI service may raise there too)
ExecuteReview ==
  /\ \E id \in NodeIds, review \in {"pass", "fail", "raised"}, artifact \in {"text", "raised"} :
       IF wf_loaded /\ id \in 1..Len(wf_nodes)
       THEN LET inReview == SetStatus(wf_nodes, id, "in_review")
                stage1 == CheckStageTransition(wf_stage, inReview)
                final == IF review = "pass" THEN SetStatus(inReview, id, "completed")
                         ELSE IF review = "fail" THEN SetStatus(inReview, id, "failed")
                         ELSE inReview
            IN /\ wf_nodes' = final
               /\ wf_stage' = IF review = "raised" THEN stage1
                              ELSE CheckStageTransition(stage1, final)
               /\ wf_artifacts' = IF review = "pass" /\ artifact = "text"
                                  THEN CheckAndGenerate(wf_artifacts, final, wf_nodes[id].type)
                                  ELSE wf_artifacts
       ELSE UNCHANGED <<wf_nodes, wf_stage, wf_artifacts>>
  /\ wf_last' = "execute_review"
  /\ UNCHANGED wf_loaded
  /\ UNCHANGED notWorkflow

\* scan_project_files()
ScanProjectFiles ==
  /\ \E found \in SUBSET (1..Len(wf_nodes)) :
       IF wf_loaded
       THEN /\ wf_nodes' = Scanned(wf_nodes, found)
            /\ wf_stage' = IF wf_nodes' # wf_nodes
                           THEN CheckStageTransition(wf_stage, wf_nodes')
                           ELSE wf_stage
       ELSE UNCHANGED <<wf_nodes, wf_stage>>
  /\ wf_last' = "scan_project_files"
  /\ UNCHANGED <<wf_loaded, wf_artifacts>>
  /\ UNCHANGED notWorkflow

WorkflowNext ==
  InitializeProject \/ UpdateNodeStatus \/ GeneratePrompt \/ ExecuteReview \/ ScanProjectFiles

---------------------------------------------------------------------------
(* Claims about the workflow stages *)

\* Claim C20: in every reachable workflow state, current_stage = PUBLISHING
\* implies that the artifact feature_list.md exists, LOGIC that
\* ui-contract.md exists and BACKEND that logic-contract.md exists, after any
\* sequence of initialize_project, update_node_status, generate_prompt,
\* execute_review and scan_project_files.
C20_StageHasItsArtifact ==
  wf_stage \in NodeTypes => STAGE_REQUIREMENTS[wf_stage] \in wf_artifacts

\* The operations that change node status
StatusOperations == {"update_node_status", "execute_review", "scan_project_files"}

\* Claim C21: a workflow stage exits when all of its nodes are complete: after
\* update_node_status, execute_review or scan_project_files returns, the
\* workflow is not left in a stage PUBLISHING, LOGIC or BACKEND that has nodes
\* and all of whose nodes have status completed.
C21_StageExitsWhenItsNodesAreComplete ==
  wf_last \in StatusOperations /\ wf_stage \in NodeTypes /\ HasNodes(wf_nodes, wf_stage)
    => ~AllCompleted(wf_nodes, wf_stage)

---------------------------------------------------------------------------
(* The precedence of the layer classification: analyze on trees whose files
   meet several rules of _categorize_files at once. *)

MaxClassifyFiles == 2

\* api/views/list.py
C_api_views_list == <<<<"a","p","i">>, <<"v","i","e","w","s">>, <<"l","i","s","t",".","p","y">>>>
\* views/api/list.py
C_views_api_list == <<<<"v","i","e","w","s">>, <<"a","p","i">>, <<"l","i","s","t",".","p","y">>>>
\* src/Views/Home.vue
C_Views_Home == <<<<"s","r","c">>, <<"V","i","e","w","s">>, <<"H","o","m","e",".","v","u","e">>>>
\* stores/setup.py
C_stores_setup == <<<<"s","t","o","r","e","s">>, <<"s","e","t","u","p",".","p","y">>>>
\* Setup.py
C_Setup == <<<<"S","e","t","u","p",".","p","y">>>>
\* manage.py
C_manage == <<<<"m","a","n","a","g","e",".","p","y">>>>
\* lib/util.js
C_lib_util == <<<<"l","i","b">>, <<"u","t","i","l",".","j","s">>>>
\* lib/data.json
C_lib_data == <<<<"l","i","b">>, <<"d","a","t","a",".","j","s","o","n">>>>

ClassifyUniverse ==
  { C_api_views_list, C_views_api_list, C_Views_Home, C_stores_setup, C_Setup, C_manage, C_lib_util, C_lib_data }

\* analyze called on a tree of at most MaxClassifyFiles of these files; any
\* Python file may hold a route decorator, any one file may be unreadable
ClassifyInit ==
  /\ files \in { fs \in UNION { [1..n -> ClassifyUniverse] : n \in 0..MaxClassifyFiles } :
                   /\ IsWalkOrder(fs)
                   /\ \A i \in 1..Len(fs) : PassesDiscoveryTests(fs[i]) }
  /\ unreadable \in { u \in SUBSET Range(files) : Cardinality(u) <= 1 }
  /\ route_files \in SUBSET { f \in Range(files) : IsPython(f) }
  /\ refs = {}
  /\ buckets = EmptyBuckets
  /\ diagnostics = "none"
  /\ column_groups = EmptyColumns
  /\ degree = <<>>
  /\ sorted_columns = EmptyColumns
  /\ nodes = <<>>
  /\ node_id_map = <<>>
  /\ col_heights = [c \in Range(Columns) |-> 0]
  /\ graph_edges = <<>>
  /\ pc = "categorize"

\* the directory components of f whose lower-cased name is in the table
MappedDirs(f) == { i \in 1..(Len(f) - 1) : DIR_TYPE_MAP(Lower(f[i])) # "none" }

\* The layer the five rules give to f, each rule applying only when no
\* earlier one does.
CascadeLayer(f) ==
  IF Lower(f[Len(f)]) \in SKIP_FILES THEN "other"
  ELSE IF MappedDirs(f) # {}
    THEN LET deepest == CHOOSE i \in MappedDirs(f) : \A k \in MappedDirs(f) : k <= i
         IN DIR_TYPE_MAP(Lower(f[deepest]))
  ELSE IF IsPython(f) /\ f \in route_files THEN "backend"
  ELSE IF EXT_TYPE_MAP(Lower(Suffix(f[Len(f)]))) # "none"
    THEN EXT_TYPE_MAP(Lower(Suffix(f[Len(f)])))
  ELSE "other"

\* C22: once the files are classified, every file is in the bucket of the
\* first rule that applies to it, and in no other: boilerplate name, else
\* deepest directory of the table, else route decorator in a Python file,
\* else extension table, else 'other'.
C22_LayerIsTheFirstRuleThatApplies ==
  pc \notin {"idle", "categorize"} =>
    \A f \in Range(files) : \A l \in Range(Layers) :
      f \in Range(buckets[l]) <=> l = CascadeLayer(f)

\* A classified tree where a Python file with a route decorator lies under
\* api/views and is a publishing file, next to a boilerplate file under
\* stores that is an 'other' file.
C22_Witness ==
  /\ pc \notin {"idle", "categorize"}
  /\ C_api_views_list \in route_files
  /\ C_api_views_list \in Range(buckets["publishing"])
  /\ C_stores_setup \in Range(buckets["other"])

\* The entries of ix_files the second pass reads and can read
RouteFiles == { k \in 1..Len(ix_files) : InRoutePass(ix_files[k]) /\ ix_files[k][2] # Unreadable }

\* The entries of ix_files the first pass reads and can read
BlueprintFiles ==
  { k \in 1..Len(ix_files) : InBlueprintPass(ix_files[k]) /\ ix_files[k][2] # Unreadable }

\* prefix joined to path with a single '/'
JoinedPath(prefix, path) == RStripSlash(prefix) \o <<"/">> \o LStripSlash(path)

\* C23: once the route map is built, every literal route decorator path of
\* every file is a key of the map and maps to that file, and so does the
\* path joined to the prefix of the decorator's variable in that file when
\* there is one, whatever the other files define.
C23_RoutePathsMapToTheirFile ==
  ix_pc = "done" =>
    \A k \in RouteFiles : \A j \in 1..Len(ix_files[k][2]) :
      LET rel == ix_files[k][1]
          st == ix_files[k][2][j]
          q == PrefixGet(bp_prefix_map, rel, st[2])
      IN st[1] = "route" =>
           /\ DictHas(route_map, st[4]) /\ DictGet(route_map, st[4]) = rel
           /\ q # NoPrefix =>
                /\ DictHas(route_map, JoinedPath(q, st[4]))
                /\ DictGet(route_map, JoinedPath(q, st[4])) = rel

\* the prefixes some readable Python file registers for the variable v
RegisteredPrefixes(v) ==
  { s[4] : s \in { st \in IndexStatements :
                     /\ st[1] = "register" /\ st[2] = v
                     /\ \E k \in BlueprintFiles : \E j \in 1..Len(ix_files[k][2]) :
                          ix_files[k][2][j] = st } }

\* the inline prefixes of the declarations of the variable v in a content
InlinePrefixes(content, v) ==
  { content[j][4] : j \in { i \in 1..Len(content) :
                              /\ content[i][1] = "blueprint" /\ content[i][2] = v
                              /\ content[i][4] # NoPrefix } }

\* C24: after the merge of the registrations, for every file that declares
\* a blueprint variable: the prefix of the variable in that file is the
\* inline prefix of the declaration when it has one, and otherwise the
\* prefix of a register_blueprint call for the variable when some file
\* holds one; the routes of the file on the variable are then keys of the
\* route map under that prefix.
C24_PrefixOfDeclaringFile ==
  ix_pc \in {"routes", "done"} =>
    \A k \in BlueprintFiles : \A j \in 1..Len(ix_files[k][2]) :
      LET rel == ix_files[k][1]
          content == ix_files[k][2]
          v == content[j][2]
          used == PrefixGet(bp_prefix_map, rel, v)
      IN content[j][1] = "blueprint" =>
           /\ InlinePrefixes(content, v) # {} => used \in InlinePrefixes(content, v)
           /\ InlinePrefixes(content, v) = {} /\ RegisteredPrefixes(v) # {} =>
                used \in RegisteredPrefixes(v)
           /\ ix_pc = "done" /\ used # NoPrefix =>
                \A r \in 1..Len(content) :
                  content[r][1] = "route" /\ content[r][2] = v =>
                    DictHas(route_map, JoinedPath(used, content[r][4]))

---------------------------------------------------------------------------
(* The package.json loop of _detect_framework on trees with up to
   MaxSubManifests subdirectory manifests. *)

MaxSubManifests == 2

\* The package.json files of these trees, <<state, deps>>
ManifestUniverse ==
  { <<"bad", {}>>, <<"ok", {}>>, <<"ok", {"express"}>>, <<"ok", {"typescript"}>>,
    <<"ok", {"react", "vue"}>>, <<"ok", {"@vue/cli-service"}>>,
    <<"ok", {"react-dom", "svelte"}>>, <<"ok", {"svelte", "next"}>>,
    <<"ok", {"next", "@angular/core", "typescript"}>>, <<"ok", {"@angular/core"}>> }

\* pkg_candidates: root / "package.json", which may be missing, then the
\* package.json that exists in a subdirectory, in iterdir order
ManifestsInit ==
  /\ fw_manifests \in
       { <<r>> \o subs : r \in ManifestUniverse \cup { <<"missing", {}>> },
                         subs \in UNION { [1..n -> ManifestUniverse] : n \in 0..MaxSubManifests } }
  /\ fw_reqs \in { <<>>, <<<<TRUE, T_flask>>>> }
  /\ fw_pyfiles = <<>>
  /\ fw_deep_py \in BOOLEAN
  /\ fw_templates \in BOOLEAN
  /\ fw_i = 1
  /\ fw_frontend = NoFramework
  /\ fw_backend = NoFramework
  /\ fw_languages = <<>>
  /\ fw_pc = "manifests"

\* The known frontend packages, from the highest priority to the lowest
FrontendPriority ==
  << <<"Vue", {"vue", "@vue/cli-service"}>>, <<"React", {"react", "react-dom"}>>,
     <<"Svelte", {"svelte"}>>, <<"Next.js", {"next"}>>, <<"Angular", {"@angular/core"}>> >>

\* The manifests, in processing order, that declare a known frontend package
DeclaringManifests ==
  { i \in 1..Len(fw_manifests) :
      /\ fw_manifests[i][1] = "ok"
      /\ \E p \in 1..Len(FrontendPriority) : FrontendPriority[p][2] \cap fw_manifests[i][2] # {} }

\* The framework of the highest-priority known package among deps
HighestPriority(deps) ==
  LET known == { p \in 1..Len(FrontendPriority) : FrontendPriority[p][2] \cap deps # {} }
  IN FrontendPriority[CHOOSE p \in known : \A k \in known : p <= k][1]

\* C25: with the root manifest processed first and the subdirectory
\* manifests after it, the frontend returned is the highest-priority known
\* package (Vue, React, Svelte, Next.js, Angular) of the first processed
\* manifest that declares a known package, and a frontend that is set is
\* never changed.
C25_FrontendIsFirstManifestByPriority ==
  /\ [](FrameworkReturned /\ DeclaringManifests # {} =>
          fw_frontend = HighestPriority(
            fw_manifests[CHOOSE i \in DeclaringManifests : \A k \in DeclaringManifests : i <= k][2]))
  /\ [][fw_frontend # NoFramework => fw_frontend' = fw_frontend]_vars

\* A root manifest with express only, then a manifest with react-dom and
\* svelte, then one with react and vue, over a root templates directory:
\* the frontend is React.
C25_Witness ==
  /\ FrameworkReturned
  /\ fw_manifests = << <<"ok", {"express"}>>, <<"ok", {"react-dom", "svelte"}>>,
                       <<"ok", {"react", "vue"}>> >>
  /\ fw_templates
  /\ fw_reqs # <<>>
  /\ fw_frontend = "React"

\* how many times tag occurs in langs
Occurrences(langs, tag) == Cardinality({ i \in 1..Len(langs) : langs[i] = tag })

\* C26: when a package.json exists at the root or in a subdirectory, the
\* languages returned hold "JavaScript" exactly once, and "TypeScript"
\* exactly once when one of these manifests declares typescript.
C26_ManifestGivesJavaScriptOnce ==
  FrameworkReturned =>
    /\ (\E i \in 1..Len(fw_manifests) : fw_manifests[i][1] # "missing")
         => Occurrences(fw_languages, "JavaScript") = 1
    /\ (\E i \in 1..Len(fw_manifests) :
          fw_manifests[i][1] = "ok" /\ "typescript" \in fw_manifests[i][2])
         => Occurrences(fw_languages, "TypeScript") = 1

---------------------------------------------------------------------------
(* Claims about _center_out, applied by Step 4 to the sorted groups of
   each column *)

\* The position of the item x in the sequence s of distinct items
PosOf(s, x) == CHOOSE i \in 1..Len(s) : s[i] = x

\* |a - b|
Distance(a, b) == IF a >= b THEN a - b ELSE b - a

\* out is the center-out arrangement of the ranked items ranked[1] (rank 0),
\* ranked[2] (rank 1), ...: the same items, rank 0 in the middle, the odd ranks
\* before it and the even ranks after it, each side further from the middle
\* as the rank grows
IsCenterOutOf(out, ranked) ==
  LET n == Len(ranked)
      middle == (n \div 2) + 1
      pos(r) == PosOf(out, ranked[r + 1])
  IN /\ Len(out) = n
     /\ Range(out) = Range(ranked)
     /\ n <= 1 => out = ranked
     /\ n >= 1 => out[middle] = ranked[1]
     /\ \A r \in 1..(n - 1) : (r % 2 = 1 => pos(r) < middle) /\ (r % 2 = 0 => pos(r) > middle)
     /\ \A r1, r2 \in 1..(n - 1) :
          (r1 < r2 /\ r1 % 2 = r2 % 2) => Distance(pos(r1), middle) < Distance(pos(r2), middle)
     /\ n = 5 => out = <<ranked[4], ranked[2], ranked[1], ranked[3], ranked[5]>>

\* C27: the order _center_out returns is a permutation of the ranked items
\* with the rank-0 item in the middle, the odd ranks above it and the even
\* ranks below it, the rank growing with the distance from the middle on each
\* side ([A,B,C,D,E] becomes [D,B,A,C,E]); zero or one item is returned
\* unchanged.
C27_CenterOutArrangement ==
  GroupsOrdered =>
    \A c \in Range(Columns) :
      IsCenterOutOf(sorted_columns[c], SortGroups(column_groups[c], degree))

\* A column of five groups arranged [D,B,A,C,E], next to a column of one
\* group
C27_Witness ==
  /\ GroupsOrdered
  /\ \E c, d \in Range(Columns) :
       /\ Len(sorted_columns[c]) = 5
       /\ sorted_columns[c] # SortGroups(column_groups[c], degree)
       /\ Len(sorted_columns[d]) = 1

---------------------------------------------------------------------------
(* analyze on the parts of a tree whose columns have different heights and
   whose publishing column holds two groups *)

\* a/views/x.vue
S_x == <<<<"a">>, <<"v","i","e","w","s">>, <<"x",".","v","u","e">>>>

\* a/views/z.vue
S_z == <<<<"a">>, <<"v","i","e","w","s">>, <<"z",".","v","u","e">>>>

\* b/views/y.vue
S_y == <<<<"b">>, <<"v","i","e","w","s">>, <<"y",".","v","u","e">>>>

\* stores/s1.js
S_s1 == <<<<"s","t","o","r","e","s">>, <<"s","1",".","j","s">>>>

\* stores/s2.js
S_s2 == <<<<"s","t","o","r","e","s">>, <<"s","2",".","j","s">>>>

\* stores/s3.js
S_s3 == <<<<"s","t","o","r","e","s">>, <<"s","3",".","j","s">>>>

\* stores/s4.js
S_s4 == <<<<"s","t","o","r","e","s">>, <<"s","4",".","j","s">>>>

\* The files of the tree, in walk order
StackFiles == <<S_x, S_z, S_y, S_s1, S_s2, S_s3, S_s4>>

RECURSIVE Pick(_, _, _)
\* The entries of s from position i on whose position is in keep
Pick(s, keep, i) ==
  IF i > Len(s) THEN <<>>
  ELSE (IF i \in keep THEN <<s[i]>> ELSE <<>>) \o Pick(s, keep, i + 1)

\* analyze called on a tree that holds some of the files, none of which
\* refers to another
StackInit ==
  /\ files \in { Pick(StackFiles, keep, 1) : keep \in SUBSET (1..Len(StackFiles)) }
  /\ unreadable = {}
  /\ route_files = {}
  /\ refs = {}
  /\ buckets = EmptyBuckets
  /\ diagnostics = "none"
  /\ column_groups = EmptyColumns
  /\ degree = <<>>
  /\ sorted_columns = EmptyColumns
  /\ nodes = <<>>
  /\ node_id_map = <<>>
  /\ col_heights = [c \in Range(Columns) |-> 0]
  /\ graph_edges = <<>>
  /\ pc = "categorize"

(* Claims about the boxes of the layout *)

\* The layout exists: Step 5 has run (before centering at "step6", after it
\* from "build_edges" on)
LaidOut == pc \in {"step6", "build_edges", "done"}

\* The positions of the directory nodes and of the file nodes
DirNodes == { i \in 1..Len(nodes) : nodes[i].type = "directory" }

\* The file nodes of the directory node at position d, in the order of nodes
ChildrenOf(d) == { i \in 1..Len(nodes) : nodes[i].parentNode = nodes[d].id }

\* The directory nodes of the column of d that come after d
LaterInColumn(d) == { e \in DirNodes : e > d /\ nodes[e].x = nodes[d].x }

\* C28: in every layout, before and after centering, a group of n files is
\* 40 + 80n + 16*max(0, n-1) + 20 high; the group that follows another in
\* its column starts exactly 40 below the end of that one, so that no two
\* boxes of a column overlap; and the i-th file of a group (from 0) has the
\* relative y 40 + 96i and its row of 80 ends no lower than the bottom
\* padding of 20 of the group's box.
C28_BoxesStackWithoutOverlap ==
  LaidOut =>
    /\ \A d \in DirNodes :
         LET n == Cardinality(ChildrenOf(d))
         IN /\ nodes[d].fileCount = n
            /\ nodes[d].height = 40 + 80 * n + 16 * (IF n >= 1 THEN n - 1 ELSE 0) + 20
            /\ LaterInColumn(d) # {} =>
                 LET next == CHOOSE e \in LaterInColumn(d) : \A k \in LaterInColumn(d) : e <= k
                 IN nodes[next].y = nodes[d].y + nodes[d].height + 40
            /\ \A e \in DirNodes :
                 (e # d /\ nodes[e].x = nodes[d].x) =>
                   \/ nodes[e].y >= nodes[d].y + nodes[d].height
                   \/ nodes[d].y >= nodes[e].y + nodes[e].height
            /\ \A f \in ChildrenOf(d) :
                 LET i == Cardinality({ g \in ChildrenOf(d) : g < f })
                 IN /\ nodes[f].y = 40 + i * 96
                    /\ nodes[f].height = 80
                    /\ nodes[f].y >= 0
                    /\ nodes[f].y + 80 <= nodes[d].height - 20
    /\ \A f \in 1..Len(nodes) :
         nodes[f].type # "directory" => \E d \in DirNodes : f \in ChildrenOf(d)

\* A centered layout with a column that holds a group of one file above a
\* group of two files and is shorter than another column.
C28_Witness ==
  /\ pc = "done"
  /\ \E d, e \in DirNodes :
       /\ nodes[d].x = nodes[e].x
       /\ nodes[d].fileCount = 1
       /\ nodes[e].fileCount = 2
       /\ nodes[d].y > 0
       /\ nodes[e].y > nodes[d].y

---------------------------------------------------------------------------
(* The per-file loop of _extract_edges over every discovered file, the     *)
(* return of the deduplicated list, and the api_flows of analyze           *)

\* src/views/logo.png
F_logo == <<<<"s","r","c">>, <<"v","i","e","w","s">>, <<"l","o","g","o",".","p","n","g">>>>

\* static/app.js
F_static_app == <<<<"s","t","a","t","i","c">>, <<"a","p","p",".","j","s">>>>

\* templates/base.html
F_tpl_base == <<<<"t","e","m","p","l","a","t","e","s">>, <<"b","a","s","e",".","h","t","m","l">>>>

\* templates/index.html
F_tpl_index == <<<<"t","e","m","p","l","a","t","e","s">>, <<"i","n","d","e","x",".","h","t","m","l">>>>

\* api.users
M_api_users == <<"a","p","i",".","u","s","e","r","s">>

\* pkg.users
M_pkg_users == <<"p","k","g",".","u","s","e","r","s">>

\* flask
M_flask == <<"f","l","a","s","k">>

\* index.html
T_index_html == <<"i","n","d","e","x",".","h","t","m","l">>

\* missing.html
T_missing_html == <<"m","i","s","s","i","n","g",".","h","t","m","l">>

\* base.html
T_base_html == <<"b","a","s","e",".","h","t","m","l">>

\* templates/base.html
T_templates_base == <<"t","e","m","p","l","a","t","e","s","/","b","a","s","e",".","h","t","m","l">>

\* users.list
E_users_list == <<"u","s","e","r","s",".","l","i","s","t">>

\* static
E_static == <<"s","t","a","t","i","c">>

\* /static/app.js
U_static_app == <<"/","s","t","a","t","i","c","/","a","p","p",".","j","s">>

\* app.js
U_app == <<"a","p","p",".","j","s">>

\* https://cdn/x.js
U_cdn == <<"h","t","t","p","s",":","/","/","c","d","n","/","x",".","j","s">>

\* ./logo.png
S_logo == <<".","/","l","o","g","o",".","p","n","g">>

\* .py
K_py == <<".","p","y">>

\* .__init__
K_init == <<".","_","_","i","n","i","t","_","_">>

\* templates/
K_templates == <<"t","e","m","p","l","a","t","e","s","/">>

\* static/
K_static == <<"s","t","a","t","i","c","/">>

\* http://
K_http == <<"h","t","t","p",":","/","/">>

\* https://
K_https == <<"h","t","t","p","s",":","/","/">>

\* //
K_slashes == <<"/","/">>

\* A statement that names no variable and no verb
St(form, text) == <<form, "", "", text>>

\* The statements a content may hold besides those of the indexing passes:
\*   "named", "default", "multiline", "require"   the imports of a JS file
\*   "use_store"        a use*Store( call
\*   "fetch"            fetch('text'), axios.get('text'), ...
\*   "py_import"        from text import ... / import text
\*   "render_template"  render_template('text')
\*   "url_for"          url_for('text')
\*   "extends"          {% extends 'text' %} / {% include 'text' %}
\*   "script", "link"   <script src="text"> / <link href="text">
JsFamily ==
  { <<".","j","s">>, <<".","j","s","x">>, <<".","t","s">>, <<".","t","s","x">>,
    <<".","v","u","e">>, <<".","s","v","e","l","t","e">> }

\* all_rel_paths: the relative path of every discovered file
AllRelPaths(fs) == { fs[i][1] : i \in 1..Len(fs) }

\* The indexed path whose text is t, NoFile when t is not in all_rel_paths
PathOfText(t, indexed) ==
  IF \E q \in indexed : JoinSlash(q) = t THEN CHOOSE q \in indexed : JoinSlash(q) = t
  ELSE NoFile

\* s.removesuffix(suffix)
RemoveSuffix(s, suffix) ==
  IF EndsWith(s, suffix) THEN SubSeq(s, 1, Len(s) - Len(suffix)) ELSE s

\* mod_name of a Python file: the path text with dots for slashes, without
\* ".py" and without a final ".__init__"
ModName(rel) ==
  LET text == JoinSlash(rel)
      dotted == [i \in 1..Len(text) |-> IF text[i] = "/" THEN "." ELSE text[i]]
  IN RemoveSuffix(RemoveSuffix(dotted, K_py), K_init)

\* s.rsplit(".", 1)[-1]
AfterLastDot(s) ==
  LET dots == { i \in 1..Len(s) : s[i] = "." }
  IN IF dots = {} THEN s
     ELSE SubSeq(s, (CHOOSE i \in dots : \A k \in dots : k <= i) + 1, Len(s))

RECURSIVE PyModuleMap(_, _)
\* py_module_map: the loop over the Python files, from the dict pm
PyModuleMap(pm, fs) ==
  IF fs = <<>> THEN pm
  ELSE IF ExtOf(Head(fs)[1]) # K_py THEN PyModuleMap(pm, Tail(fs))
  ELSE LET rel == Head(fs)[1]
           mod_name == ModName(rel)
           short == AfterLastDot(mod_name)
           withMod == DictSet(pm, mod_name, rel)
       IN PyModuleMap(IF DictHas(withMod, short) THEN withMod ELSE DictSet(withMod, short, rel),
                      Tail(fs))

RECURSIVE ResolvePartial(_, _, _)
\* The loop of _resolve_py_import over ".".join(parts[i:]), the part that
\* starts at position start of the module name
ResolvePartial(module_name, start, pm) ==
  IF start > Len(module_name) + 1 THEN NoFile
  ELSE LET partial == SubSeq(module_name, start, Len(module_name))
           dot == IndexFrom(module_name, ".", start)
       IN IF DictHas(pm, partial) THEN DictGet(pm, partial)
          ELSE IF dot = 0 THEN NoFile
          ELSE ResolvePartial(module_name, dot + 1, pm)

\* _resolve_py_import
ResolvePyImport(module_name, pm) ==
  IF DictHas(pm, module_name) THEN DictGet(pm, module_name)
  ELSE ResolvePartial(module_name, 1, pm)

\* A variant of _resolve_static_ref that returns the path without looking
\* it up in all_rel_paths.
ResolveStaticRefUnchecked(url, indexed) ==
  IF StartsWith(url, K_http) \/ StartsWith(url, K_https) \/ StartsWith(url, K_slashes) THEN NoFile
  ELSE SplitSlash(LStripSlash(url))

\* _resolve_static_ref
ResolveStaticRef(url, indexed) ==
  LET rel == LStripSlash(url)
  IN IF StartsWith(url, K_http) \/ StartsWith(url, K_https) \/ StartsWith(url, K_slashes) THEN NoFile
     ELSE IF PathOfText(rel, indexed) # NoFile THEN PathOfText(rel, indexed)
     ELSE IF ~StartsWith(rel, K_static) THEN PathOfText(K_static \o rel, indexed)
     ELSE NoFile

\* The edges a loop appends: one of type etype from rel to each target that
\* was resolved, in order
EdgesTo(rel, targets, etype) ==
  LET found == SelectSeq(targets, LAMBDA g : g # NoFile)
  IN [i \in 1..Len(found) |-> <<rel, found[i], etype>>]

\* The texts of the statements of the given forms, in order
TextsOf(content, forms) ==
  LET sts == SelectSeq(content, LAMBDA st : st[1] \in forms)
  IN [i \in 1..Len(sts) |-> sts[i][4]]

\* The import statements of a JS content as <<form, specifier>>
JsStatements(content) ==
  LET sts == SelectSeq(content, LAMBDA st : st[1] \in {"named", "default", "multiline", "require"})
  IN [i \in 1..Len(sts) |-> <<sts[i][1], sts[i][4]>>]

\* Whether the literal has a slash followed by a letter, as api_call_re asks
HasSlashLetter(text) ==
  \E i \in 1..(Len(text) - 1) :
    text[i] = "/" /\ (text[i + 1] \in Range(LowerChars) \/ text[i + 1] \in Range(UpperChars))

\* The call literals api_call_re finds in the content
ApiCallLiterals(content) ==
  SelectSeq(TextsOf(content, {"fetch"}), HasSlashLetter)

\* What the extraction of one file has gathered: the edges list, the
\* api_endpoints dict, and whether an exception left the loop
Gathered(es, eps, raised) == [edges |-> es, endpoints |-> eps, raised |-> raised]

RECURSIVE StepC(_, _, _, _)
\* C. API call detection, from the gathered state acc
StepC(acc, rel, calls, rm) ==
  IF calls = <<>> \/ acc.raised THEN acc
  ELSE LET api_path == Head(calls)
           target == MatchApiRoute(api_path, rm)
       IN IF target = Raised THEN Gathered(acc.edges, acc.endpoints, TRUE)
          ELSE IF target = NoTarget THEN StepC(acc, rel, Tail(calls), rm)
          ELSE StepC(Gathered(Append(acc.edges, <<rel, target[2], "api_call">>),
                              EndpointsAdd(acc.endpoints, <<rel, target[2]>>,
                                           ReplaceVars(StripVarPrefix(api_path), 1)),
                              FALSE),
                     rel, Tail(calls), rm)

\* Whether the content holds the route inside a string literal: a quote,
\* the route, then a quote or a question mark
InLiteral(route_path, content) ==
  \E k \in 1..Len(content) :
    \/ content[k][4] = route_path /\ route_path # <<>>
    \/ StartsWith(content[k][4], route_path \o <<"?">>)

RECURSIVE StepD(_, _, _, _, _)
\* D. The reverse lookup over route_map.items(), from entry i on
StepD(acc, rel, content, rm, i) ==
  IF i > Len(rm) \/ acc.raised THEN acc
  ELSE LET route_path == rm[i][1]
           route_target == rm[i][2]
       IN IF route_target = rel \/ Len(route_path) < 4 \/ ~InLiteral(route_path, content)
          THEN StepD(acc, rel, content, rm, i + 1)
          ELSE StepD(Gathered(Append(acc.edges, <<rel, route_target, "api_call">>),
                              EndpointsAdd(acc.endpoints, <<rel, route_target>>, route_path),
                              FALSE),
                     rel, content, rm, i + 1)

\* The JS-family branch of the loop body
JsBranch(acc, rel, content, rm, disk, indexed) ==
  LET imports ==
        EdgesOf(rel, JsStatements(content), IsEsImport, "import", disk, indexed)
        \o EdgesOf(rel, JsStatements(content), IsRelativeRequire, "import", disk, indexed)
      state == IF \E k \in 1..Len(content) : content[k][1] = "use_store"
               THEN EdgesOf(rel, JsStatements(content), IsStoreImport, "state_usage", disk, indexed)
               ELSE <<>>
      afterB == Gathered(acc.edges \o imports \o state, acc.endpoints, FALSE)
  IN StepD(StepC(afterB, rel, ApiCallLiterals(content), rm), rel, content, rm, 1)

\* endpoint.split('.')[0]
BeforeFirstDot(s) ==
  IF IndexFrom(s, ".", 1) = 0 THEN s ELSE SubSeq(s, 1, IndexFrom(s, ".", 1) - 1)

\* The Python branch of the loop body
PyBranch(acc, rel, content, pm, indexed) ==
  LET imports == TextsOf(content, {"py_import"})
      templates == TextsOf(content, {"render_template"})
      endpoints == TextsOf(content, {"url_for"})
  IN Gathered(
       acc.edges
       \o EdgesTo(rel, [i \in 1..Len(imports) |-> ResolvePyImport(imports[i], pm)], "import")
       \o EdgesTo(rel, [i \in 1..Len(templates) |->
                          PathOfText(K_templates \o templates[i], indexed)], "import")
       \o EdgesTo(rel, [i \in 1..Len(endpoints) |->
                          ResolvePyImport(BeforeFirstDot(endpoints[i]), pm)], "import"),
       acc.endpoints, FALSE)

\* The HTML branch of the loop body
HtmlBranch(acc, rel, content, pm, indexed) ==
  LET refs_ == TextsOf(content, {"extends"})
      scripts == TextsOf(content, {"script"})
      links == TextsOf(content, {"link"})
      endpoints == SelectSeq(TextsOf(content, {"url_for"}), LAMBDA e : e # E_static)
  IN Gathered(
       acc.edges
       \o EdgesTo(rel, [i \in 1..Len(refs_) |->
                          PathOfText(IF StartsWith(refs_[i], K_templates) THEN refs_[i]
                                     ELSE K_templates \o refs_[i], indexed)], "import")
       \o EdgesTo(rel, [i \in 1..Len(scripts) |-> ResolveStaticRef(scripts[i], indexed)], "import")
       \o EdgesTo(rel, [i \in 1..Len(links) |-> ResolveStaticRef(links[i], indexed)], "import")
       \o EdgesTo(rel, [i \in 1..Len(endpoints) |->
                          ResolvePyImport(BeforeFirstDot(endpoints[i]), pm)], "api_call"),
       acc.endpoints, FALSE)

\* The body of the per-file loop for a file whose content was read
FileEdges(acc, rel, content, rm, pm, disk, indexed) ==
  IF ExtOf(rel) \in JsFamily THEN JsBranch(acc, rel, content, rm, disk, indexed)
  ELSE IF ExtOf(rel) = K_py THEN PyBranch(acc, rel, content, pm, indexed)
  ELSE IF ExtOf(rel) = <<".","h","t","m","l">> THEN HtmlBranch(acc, rel, content, pm, indexed)
  ELSE acc

\* The characters of the endpoints, in the order of their code points
CodeOrder ==
  <<"$", "*", ".", "/">> \o <<"0","1","2","3","4","5","6","7","8","9">>
  \o <<"<", "=", ">", "?">> \o UpperChars \o LowerChars \o <<"{", "}">>

Code(c) == CHOOSE i \in 1..Len(CodeOrder) : CodeOrder[i] = c

\* a < b on str
TextLess(a, b) ==
  \/ Len(a) < Len(b) /\ SubSeq(b, 1, Len(a)) = a
  \/ \E k \in 1..(IF Len(a) < Len(b) THEN Len(a) ELSE Len(b)) :
       /\ SubSeq(a, 1, k - 1) = SubSeq(b, 1, k - 1)
       /\ Code(a[k]) < Code(b[k])

RECURSIVE Sorted(_)
\* sorted(endpoints)
Sorted(texts) ==
  IF texts = <<>> THEN <<>>
  ELSE LET rest == Sorted(SubSeq(texts, 1, Len(texts) - 1))
           last == texts[Len(texts)]
           n == Cardinality({ i \in 1..Len(rest) : ~TextLess(last, rest[i]) })
       IN SubSeq(rest, 1, n) \o <<last>> \o SubSeq(rest, n + 1, Len(rest))

\* api_flows: one entry for each key of api_endpoints, then the sort by
\* count, descending
ApiFlows(eps) ==
  LET keyed == [i \in 1..Len(eps) |->
                  <<Len(eps[i][2]),
                    [source |-> eps[i][1][1], target |-> eps[i][1][2],
                     endpoints |-> Sorted(eps[i][2]), count |-> Len(eps[i][2])]>>]
      sorted == StableSortDesc(keyed)
  IN [i \in 1..Len(sorted) |-> sorted[i][2]]

\* The contents each file of the project may have; a file may also be
\* missing from the tree
AppContents ==
  { <<>>,
    << <<"route", "app", "get", X_api_users>> >>,
    << St("py_import", M_api_users), St("render_template", T_index_html) >>,
    << St("py_import", M_flask), St("py_import", M_pkg_users), St("url_for", E_users_list),
       St("render_template", T_missing_html) >> }

ServerContents ==
  { << <<"call", "router", "get", X_api_users>>, St("fetch", X_api_users) >>,
    << St("fetch", P_query), St("fetch", X_api_users), St("fetch", P_user42) >>,
    << <<"call", "app", "get", R_all>> >> }

UsersContents ==
  { << <<"blueprint", "bp", "", X_api_users>>, <<"route", "bp", "route", X_id>> >>,
    << <<"route", "app", "route", X_api_all>> >>,
    Unreadable }

HomeContents ==
  { << St("named", S_alias_user), St("use_store", <<>>) >>,
    << St("fetch", P_user42), St("fetch", P_base), St("default", X_api_users) >>,
    << St("require", S_rel_user), St("named", S_above), St("default", S_logo) >> }

StoreFileContents == { << St("fetch", P_query) >> }

IndexHtmlContents ==
  { << St("extends", T_base_html), St("script", U_static_app), St("link", U_app),
       St("url_for", E_users_list) >>,
    << St("script", U_cdn), St("extends", T_templates_base), St("url_for", E_static),
       St("link", S_logo) >>,
    Unreadable }

\* No such file in the tree
Absent == <<<<"(", "absent", ")">>>>

\* The files of a tree in walk order, given the content of each file of the
\* project or Absent
ExtractTree(app, server, users, store, home, script, base, index) ==
  LET all == << <<F_app, app>>, <<F_main, server>>, <<F_users, users>>, <<F_user, store>>,
                <<F_Home, home>>, <<F_static_app, script>>, <<F_tpl_base, base>>,
                <<F_tpl_index, index>> >>
  IN SelectSeq(all, LAMBDA f : f[2] # Absent)

\* _extract_edges at the start of the per-file loop: the tree holds some of
\* the files of the project, each with one of its contents, and possibly a
\* picture that file discovery does not collect
ExtractInit ==
  /\ \E app \in AppContents \cup {Absent}, server \in ServerContents \cup {Absent},
        users \in UsersContents \cup {Absent}, store \in StoreFileContents \cup {Absent},
        home \in HomeContents \cup {Absent}, script \in { <<>>, Absent },
        base \in { <<>>, Absent }, index \in IndexHtmlContents \cup {Absent} :
       ex_files = ExtractTree(app, server, users, store, home, script, base, index)
  /\ ex_disk \in { AllRelPaths(ex_files), AllRelPaths(ex_files) \cup {F_logo} }
  /\ ex_i = 1
  /\ ex_edges = <<>>
  /\ ex_endpoints = <<>>
  /\ ex_edge_list = <<>>
  /\ ex_api_flows = <<>>
  /\ ex_pc = "files"

\* The files whose content can be read
ReadableFiles(fs) == SelectSeq(fs, LAMBDA f : f[2] # Unreadable)

notExtract ==
  <<scanVars, dedupVars, graphVars, routeVars, storeVars, fwVars, rqVars, ixVars, shVars, fsVars,
    wfVars>>

\* One iteration of `for fpath in files`
ExtractFile ==
  /\ ex_pc = "files"
  /\ ex_i <= Len(ex_files)
  /\ LET rel == ex_files[ex_i][1]
         content == ex_files[ex_i][2]
         out == FileEdges(Gathered(ex_edges, ex_endpoints, FALSE), rel, content,
                          RouteMapOf(ReadableFiles(ex_files)), PyModuleMap(<<>>, ex_files),
                          ex_disk, AllRelPaths(ex_files))
     IN IF content = Unreadable
        THEN UNCHANGED <<ex_edges, ex_endpoints, ex_pc>>
        ELSE /\ ex_edges' = out.edges
             /\ ex_endpoints' = out.endpoints
             /\ ex_pc' = IF out.raised THEN "raised" ELSE "files"
  /\ ex_i' = ex_i + 1
  /\ UNCHANGED <<ex_files, ex_disk, ex_edge_list, ex_api_flows>>
  /\ UNCHANGED notExtract

\* The deduplication loop and the return of _extract_edges
ExtractReturn ==
  /\ ex_pc = "files"
  /\ ex_i > Len(ex_files)
  /\ ex_edge_list' = DedupAll(<<>>, ex_edges)
  /\ ex_pc' = "flows"
  /\ UNCHANGED <<ex_files, ex_disk, ex_i, ex_edges, ex_endpoints, ex_api_flows>>
  /\ UNCHANGED notExtract

\* analyze builds api_flows from api_endpoints
BuildApiFlows ==
  /\ ex_pc = "flows"
  /\ ex_api_flows' = ApiFlows(ex_endpoints)
  /\ ex_pc' = "done"
  /\ UNCHANGED <<ex_files, ex_disk, ex_i, ex_edges, ex_endpoints, ex_edge_list>>
  /\ UNCHANGED notExtract

ExtractNext == ExtractFile \/ ExtractReturn \/ BuildApiFlows

---------------------------------------------------------------------------
(* Claims about the extracted edges and the API flows *)

\* C29: every edge of the list _extract_edges returns, whatever rule found
\* it, has its source and its target among the relative paths of the
\* discovered files; so has every candidate edge on the way.
C29_EdgesConnectDiscoveredFiles ==
  /\ \A i \in 1..Len(ex_edges) :
       ex_edges[i][1] \in AllRelPaths(ex_files) /\ ex_edges[i][2] \in AllRelPaths(ex_files)
  /\ \A i \in 1..Len(ex_edge_list) :
       ex_edge_list[i][1] \in AllRelPaths(ex_files) /\ ex_edge_list[i][2] \in AllRelPaths(ex_files)

\* A returned list with an edge from a template to a script, an edge from a
\* Python file to a template and an api_call edge from a page, on a tree
\* where the page also imports a picture that exists and is no discovered
\* file.
C29_Witness ==
  /\ ex_pc = "done"
  /\ F_logo \in ex_disk
  /\ \E k \in 1..Len(ex_files) :
       ex_files[k][1] = F_Home /\ \E j \in 1..Len(ex_files[k][2]) : ex_files[k][2][j][4] = S_logo
  /\ <<F_tpl_index, F_static_app, "import">> \in Range(ex_edge_list)
  /\ <<F_app, F_tpl_index, "import">> \in Range(ex_edge_list)
  /\ \E i \in 1..Len(ex_edge_list) : ex_edge_list[i][3] = "api_call"

\* C30: every entry of api_flows stands for an api_call edge of the
\* returned list: its source differs from its target and the edge (source,
\* target, api_call) is in the list; its endpoints are pairwise distinct and
\* sorted, its count is their number, and the entries come in non-increasing
\* order of count.
C30_FlowsAreApiCallEdges ==
  ex_pc = "done" =>
    \A i \in 1..Len(ex_api_flows) :
      LET flow == ex_api_flows[i]
      IN /\ flow.source # flow.target
         /\ <<flow.source, flow.target, "api_call">> \in Range(ex_edge_list)
         /\ \A j, k \in 1..Len(flow.endpoints) :
              j < k => TextLess(flow.endpoints[j], flow.endpoints[k])
         /\ flow.count = Len(flow.endpoints)
         /\ i < Len(ex_api_flows) => flow.count >= ex_api_flows[i + 1].count

---------------------------------------------------------------------------
(* Specifications: each runs one part of the analyzer, the others idle *)

\* _scan_files on every tree of at most MaxScanFiles files
InitScan == ScanInit /\ DedupIdle /\ GraphIdle /\ RouteIdle /\ StoreIdle /\ FrameworkIdle /\ RequestIdle /\ IndexIdle /\ SharedIdle /\ FilesIdle /\ WorkflowIdle /\ ExtractIdle

SpecScan == InitScan /\ [][ScanNext]_vars

\* The deduplication loop on every candidate list of at most MaxEdges edges
InitEdges == DedupInit /\ ScanIdle /\ GraphIdle /\ RouteIdle /\ StoreIdle /\ FrameworkIdle /\ RequestIdle /\ IndexIdle /\ SharedIdle /\ FilesIdle /\ WorkflowIdle /\ ExtractIdle

SpecEdges == InitEdges /\ [][DedupNext]_vars

\* analyze, from the discovered files on, on every tree of at most MaxFiles
\* files of the sample project
InitAnalyze == AnalyzeInit /\ DedupIdle /\ ScanIdle /\ RouteIdle /\ StoreIdle /\ FrameworkIdle /\ RequestIdle /\ IndexIdle /\ SharedIdle /\ FilesIdle /\ WorkflowIdle /\ ExtractIdle

SpecAnalyze == InitAnalyze /\ [][AnalyzeNext]_vars

\* Steps 2 to 4 of _generate_graph on every project of at most MaxGroups
\* page directories
InitCenter == CenterInit /\ ScanIdle /\ RouteIdle /\ StoreIdle /\ FrameworkIdle /\ RequestIdle /\ IndexIdle /\ SharedIdle /\ FilesIdle /\ WorkflowIdle /\ ExtractIdle

SpecCenter == InitCenter /\ [][CenterNext]_vars

\* analyze on every part of the tree of StackFiles
InitStack == StackInit /\ DedupIdle /\ ScanIdle /\ RouteIdle /\ StoreIdle /\ FrameworkIdle /\ RequestIdle /\ IndexIdle /\ SharedIdle /\ FilesIdle /\ WorkflowIdle /\ ExtractIdle

SpecStack == InitStack /\ [][AnalyzeNext]_vars

\* analyze on every tree of at most MaxClassifyFiles files that meet several
\* classification rules at once
InitClassify == ClassifyInit /\ DedupIdle /\ ScanIdle /\ RouteIdle /\ StoreIdle /\ FrameworkIdle /\ RequestIdle /\ IndexIdle /\ SharedIdle /\ FilesIdle /\ WorkflowIdle /\ ExtractIdle

SpecClassify == InitClassify /\ [][AnalyzeNext]_vars

\* The API call step on every route dict of at most MaxRoutes routes and
\* every file of at most MaxCalls call literals
InitRoute == RouteInit /\ ScanIdle /\ DedupIdle /\ GraphIdle /\ StoreIdle /\ FrameworkIdle /\ RequestIdle /\ IndexIdle /\ SharedIdle /\ FilesIdle /\ WorkflowIdle /\ ExtractIdle

SpecRoute == InitRoute /\ [][RouteNext]_vars

\* The JS-family branch and the deduplication loop on every source file of at
\* most MaxStatements import statements
InitStore == StoreInit /\ DedupIdle /\ ScanIdle /\ GraphIdle /\ RouteIdle /\ FrameworkIdle /\ RequestIdle /\ IndexIdle /\ SharedIdle /\ FilesIdle /\ WorkflowIdle /\ ExtractIdle

SpecStore == InitStore /\ [][StoreNext]_vars

\* _detect_framework on every tree of at most MaxReqs Python manifests and
\* MaxRootPy root-level Python files
InitFramework ==
  FrameworkInit /\ DedupIdle /\ ScanIdle /\ GraphIdle /\ RouteIdle /\ StoreIdle /\ RequestIdle /\ IndexIdle /\ SharedIdle /\ FilesIdle /\ WorkflowIdle /\ ExtractIdle

SpecFramework == InitFramework /\ [][FrameworkNext]_vars

\* _detect_framework on every tree of a root manifest and at most
\* MaxSubManifests subdirectory manifests
InitManifests == ManifestsInit /\ ScanIdle /\ DedupIdle /\ GraphIdle /\ RouteIdle /\ StoreIdle /\ RequestIdle /\ IndexIdle /\ SharedIdle /\ FilesIdle /\ WorkflowIdle /\ ExtractIdle

SpecManifests == InitManifests /\ [][FrameworkNext]_vars

\* Calls of search_in_files (directly and through the endpoint) and of
\* analyze on every tree of at most MaxSearchFiles files
InitRequest ==
  RequestInit /\ DedupIdle /\ ScanIdle /\ GraphIdle /\ RouteIdle /\ StoreIdle /\ FrameworkIdle /\ IndexIdle /\ SharedIdle /\ FilesIdle /\ WorkflowIdle /\ ExtractIdle

SpecRequest == InitRequest /\ [][RequestNext]_vars

\* The indexing passes on every tree of three files of at most
\* MaxIndexStatements statements each
InitIndex ==
  IndexInit /\ RouteIdle /\ DedupIdle /\ ScanIdle /\ GraphIdle /\ StoreIdle /\ FrameworkIdle
  /\ RequestIdle /\ SharedIdle /\ FilesIdle /\ WorkflowIdle /\ ExtractIdle

SpecIndex == InitIndex /\ [][IndexNext]_vars

\* Every pass that reads the discovered files, each from its own start
InitReads == InitAnalyze \/ InitIndex \/ InitRequest

ReadsNext ==
  \/ Categorize
  \/ ExtractEdges
  \/ Diagnose
  \/ Step1
  \/ Step2
  \/ Step3
  \/ Step4
  \/ Step5
  \/ Step6
  \/ BuildGraphEdges
  \/ IndexBlueprints
  \/ IndexMerge
  \/ IndexRoutes
  \/ IndexEnd
  \/ HttpSearch
  \/ SearchEntry
  \/ SearchFile
  \/ SearchReturn
  \/ AnalyzeEntry

SpecReads == InitReads /\ [][ReadsNext]_vars

\* MaxSharedCalls calls on the shared instance, their steps interleaved
InitShared ==
  SharedInit /\ IndexIdle /\ RouteIdle /\ DedupIdle /\ ScanIdle /\ GraphIdle /\ StoreIdle
  /\ FrameworkIdle /\ RequestIdle /\ FilesIdle /\ WorkflowIdle /\ ExtractIdle

SpecShared == InitShared /\ [][SharedNext]_vars

\* At most MaxWrites calls of write_artifact, one after the other
InitArtifact ==
  ArtifactInit /\ SharedIdle /\ IndexIdle /\ RouteIdle /\ DedupIdle /\ ScanIdle /\ GraphIdle
  /\ StoreIdle /\ FrameworkIdle /\ RequestIdle /\ WorkflowIdle /\ ExtractIdle

SpecArtifact == InitArtifact /\ [][ArtifactNext]_vars

\* One request to read-file or download-zip
InitFetch ==
  FetchInit /\ SharedIdle /\ IndexIdle /\ RouteIdle /\ DedupIdle /\ ScanIdle /\ GraphIdle
  /\ StoreIdle /\ FrameworkIdle /\ RequestIdle /\ WorkflowIdle /\ ExtractIdle

SpecFetch == InitFetch /\ [][FetchNext]_vars

\* Every sequence of operations on the workflow service
InitWorkflow ==
  WorkflowInit /\ FilesIdle /\ SharedIdle /\ IndexIdle /\ RouteIdle /\ DedupIdle /\ ScanIdle
  /\ GraphIdle /\ StoreIdle /\ FrameworkIdle /\ RequestIdle /\ ExtractIdle

SpecWorkflow == InitWorkflow /\ [][WorkflowNext]_vars

\* _extract_edges from the per-file loop on, and the api_flows of analyze,
\* on every tree made of the files of ExtractProject
InitExtract ==
  ExtractInit /\ ScanIdle /\ DedupIdle /\ GraphIdle /\ RouteIdle /\ StoreIdle /\ FrameworkIdle
  /\ RequestIdle /\ IndexIdle /\ SharedIdle /\ FilesIdle /\ WorkflowIdle

SpecExtract == InitExtract /\ [][ExtractNext]_vars

=============================================================================
